---- MODULE Spec2Model ----
(***************************************************************************)
(* A model of bakread's offline extraction core: the page index and its    *)
(* parallel scan (IndexedPageStore, PageIndex, LRUPageCache), the backup   *)
(* header parser, the catalog lookup and the DirectExtractor phases.       *)
(*                                                                         *)
(* A stripe file is modelled from the offset the scan starts at, as a      *)
(* sequence of 8 KiB windows.  A window is either a page image (its header *)
(* fields and its slot array) or a compressed block (magic 0xDAC0) with    *)
(* the pages its payload decodes to.  A page key make_page_key(f, p) is    *)
(* the pair <<f, p>>: the 64-bit packing is injective on the 16-bit file   *)
(* id and the 32-bit page id.                                              *)
(***************************************************************************)
EXTENDS Integers, Sequences, FiniteSets, TLC

(* ------------------------------------------------------------------ *)
(* Program constants                                                  *)
(* ------------------------------------------------------------------ *)
PAGE_SIZE == 8192
PAGE_HEADER_SIZE == 96
PT_DATA == 1
PT_BOOT == 13
OBJ_SYSSCHOBJS == 34
OBJ_SYSROWSETS == 5
OBJ_SYSALLOCUNITS == 7
OBJ_SYSCOLPARS == 41
BOOT_PAGE_ID == 9
PRIMARY_FILE_ID == 1
CATALOG_PAGE_LIMIT == 1000
MAX_SLOT_COUNT == 1000
MAX_PAGE_TYPE == 17
MAX_FILE_ID == 32
DECOMP_FACTOR == 4
READ_DECOMP_PAGES == 2
DEFAULT_SET_POSITION == 1

(* ------------------------------------------------------------------ *)
(* Bounds of the model                                                *)
(* ------------------------------------------------------------------ *)
\* windows in all stripes of a backup together (scan specification)
MaxWindows == 3
\* pages the LRU cache may hold (IndexedStoreConfig::cache_pages)
MaxCachePages == 1
\* largest max_rows a caller sets (extract specification)
MaxMaxRows == 2
\* page requests whose order is remembered (cache specification)
MaxRequests == 4
\* runs of scan_catalog on one CatalogReader (catalog specification)
MaxScans == 2
\* largest null bitmap byte of a record (decoder specification)
MaxBitmap == 7
\* slot array entries that lie before the start of the buffer (page specification)
MaxSlotsBefore == 1
\* names in a column filter (column filter specification)
MaxFilter == 2

\* a backup has one or two stripe files
StripeCounts == {1, 2}
\* hardware_concurrency() of the machine
ThreadCounts == {1, 2}

Min(a, b) == IF a < b THEN a ELSE b

RECURSIVE SeqSum(_)
SeqSum(s) == IF s = <<>> THEN 0 ELSE Head(s) + SeqSum(Tail(s))

(* ------------------------------------------------------------------ *)
(* Records, pages and windows                                         *)
(* ------------------------------------------------------------------ *)
\* one slot of a page: a user row or a row of a system base table
Rec(k, id, major, minor, name, type) ==
    [k |-> k, id |-> id, major |-> major, minor |-> minor, name |-> name, type |-> type]
UserRow(n) == Rec("row", n, 0, 0, "", "")
\* a slot whose record decode_row rejects
BadRow(n) == Rec("bad", n, 0, 0, "", "")
SysObjRec(id, nsid, name, type) == Rec("obj", id, nsid, 0, name, type)
RowsetRec(rowsetid, idmajor, idminor) == Rec("rowset", rowsetid, idmajor, idminor, "", "")
AllocRec(auid, type, container) == Rec("alloc", auid, container, type, "", "")
\* a syscolpars record: owning object id, colid and the column name
ColRec(obj_id, col_id, name) == Rec("col", obj_id, col_id, 0, name, "")

\* PageHeader fields read by the code, and the slot array
Page(ver, type, file, page, obj, free, recs) ==
    [magic |-> FALSE, dec |-> <<>>, header_version |-> ver, type |-> type,
     this_file |-> file, this_page |-> page, obj_id |-> obj,
     slot_count |-> Len(recs), free_count |-> free, recs |-> recs]

\* a compressed block: the page header fields are what its raw bytes hold
Block(dec) ==
    [magic |-> TRUE, dec |-> dec, header_version |-> 192, type |-> 218,
     this_file |-> 7, this_page |-> 77, obj_id |-> 0,
     slot_count |-> 0, free_count |-> 0, recs |-> <<>>]

make_page_key(file_id, page_id) == <<file_id, page_id>>
KeyOf(p) == make_page_key(p.this_file, p.this_page)

\* page images: the pages of a small database with one user table "t1"
\* (object 1000, rowset 500, allocation unit 256 << 16, page obj_id 256)
PgBoot == Page(1, PT_BOOT, 1, BOOT_PAGE_ID, 0, 0, <<>>)
PgSysObj == Page(1, PT_DATA, 1, 20, OBJ_SYSSCHOBJS, 0,
                 <<SysObjRec(1000, 1, "t1", "U"), SysObjRec(1001, 1, "v1", "V")>>)
PgRowsets == Page(1, PT_DATA, 1, 21, OBJ_SYSROWSETS, 0, <<RowsetRec(500, 1000, 1)>>)
PgAlloc == Page(1, PT_DATA, 1, 22, OBJ_SYSALLOCUNITS, 0, <<AllocRec(16777216, 1, 500)>>)
PgD1 == Page(1, PT_DATA, 1, 100, 256, 0, <<UserRow(1), UserRow(2)>>)
PgD1Dup == Page(1, PT_DATA, 1, 100, 256, 0, <<UserRow(5)>>)
PgD2 == Page(1, PT_DATA, 1, 101, 256, 0, <<BadRow(0), UserRow(3)>>)
PgOther == Page(1, PT_DATA, 1, 102, 300, 0, <<UserRow(9)>>)
PgEmpty == Page(1, PT_DATA, 1, 103, 256, 0, <<>>)
PgBadHdr == Page(0, PT_DATA, 1, 104, 256, 0, <<UserRow(7)>>)
PgZero == Page(0, 0, 0, 0, 0, 0, <<>>)
BlkD1D2 == Block(<<PgD1Dup, PgD2>>)
BlkFail == Block(<<>>)
RawWindows == {PgD1, PgD1Dup, PgD2, PgZero}
CompressedWindows == {PgD1, PgD2, BlkD1D2, BlkFail}

(* ------------------------------------------------------------------ *)
(* Backup header (first stripe)                                       *)
(* ------------------------------------------------------------------ *)
\* one MTF descriptor block found by the 512-byte signature walk
MtfBlock(type, offset, position, compressed, named) ==
    [type |-> type, offset |-> offset, position |-> position,
     compressed |-> compressed, named |-> named]

BackupSetInfo(position, compressed) ==
    [position |-> position, is_compressed |-> compressed,
     is_tde |-> FALSE, is_encrypted |-> FALSE]

HdrFile(size_ok, blocks) == [size_ok |-> size_ok, blocks |-> blocks]
HdrPlain == HdrFile(TRUE, <<MtfBlock("TAPE", 0, 0, FALSE, FALSE),
                           MtfBlock("SSET", 1024, 1, FALSE, FALSE),
                           MtfBlock("MSDA", 12288, 0, FALSE, FALSE)>>)
HdrCompressed == HdrFile(TRUE, <<MtfBlock("TAPE", 0, 0, FALSE, FALSE),
                                MtfBlock("SSET", 1024, 1, TRUE, FALSE),
                                MtfBlock("MSDA", 12288, 0, FALSE, FALSE)>>)
HdrDirbOnly == HdrFile(TRUE, <<MtfBlock("TAPE", 0, 0, FALSE, FALSE),
                              MtfBlock("DIRB", 2048, 0, FALSE, TRUE)>>)
HdrNoSignature == HdrFile(TRUE, <<>>)
HdrTooSmall == HdrFile(FALSE, <<>>)

\* parse(): the backup sets after the block walk, the SSET / DIRB / FILE
\* handlers and the fallback that adds a default set when none was parsed
RECURSIVE ParseBlocks(_, _)
ParseBlocks(blocks, sets) ==
    IF blocks = <<>> THEN sets
    ELSE LET b == Head(blocks)
             next ==
               CASE b.type = "SSET" ->
                      IF sets = <<>> \/ sets[Len(sets)].position # b.position
                      THEN Append(sets, BackupSetInfo(b.position, b.compressed))
                      ELSE sets
                 [] b.type \in {"DIRB", "FILE"} ->
                      IF b.named /\ sets = <<>>
                      THEN <<BackupSetInfo(DEFAULT_SET_POSITION, FALSE)>>
                      ELSE sets
                 [] OTHER -> sets
         IN ParseBlocks(Tail(blocks), next)

\* a variant of the parser without the default backup set
ParseSetsNoFallback(h) == ParseBlocks(h.blocks, <<>>)

\* BackupHeaderParser::parse: the backup sets it leaves
ParseSets(h) ==
    LET sets == ParseBlocks(h.blocks, <<>>)
    IN IF sets = <<>> THEN <<BackupSetInfo(DEFAULT_SET_POSITION, FALSE)>> ELSE sets

ParseDataStart(h) ==
    IF h.blocks # <<>> THEN h.blocks[Len(h.blocks)].offset ELSE 0

\* parse() throws on a file shorter than 512 bytes, and returns true otherwise
ParseThrows(h) == ~h.size_ok

is_tde_enabled(sets) == \E i \in DOMAIN sets : sets[i].is_tde
is_backup_encrypted(sets) == \E i \in DOMAIN sets : sets[i].is_encrypted

\* scan(): is_compressed_ = !backup_sets().empty() && backup_sets()[0].is_compressed
IsCompressedSet(sets) == sets # <<>> /\ sets[1].is_compressed

\* the page-aligned offset at which a stripe is scanned
ScanStart(dso) ==
    LET r == ((dso + PAGE_SIZE - 1) \div PAGE_SIZE) * PAGE_SIZE
    IN IF r = 0 THEN PAGE_SIZE ELSE r

(* ------------------------------------------------------------------ *)
(* PageIndex and the stripe scan                                      *)
(* ------------------------------------------------------------------ *)
EmptyIndex == <<>>
NoFile == [present |-> FALSE]
NoKey == <<0, 0>>

PageIndexEntry(stripe, ptype, obj, off) ==
    [stripe_index |-> stripe, page_type |-> ptype, object_id |-> obj, file_offset |-> off]

\* a variant of add_entry that keeps the entry already stored
add_entry_keep_first(idx, key, e) ==
    IF key \in DOMAIN idx THEN idx
    ELSE [k \in DOMAIN idx \cup {key} |-> IF k = key THEN e ELSE idx[k]]

\* PageIndex::add_entry: entries_[key] = entry
add_entry(idx, key, e) ==
    [k \in DOMAIN idx \cup {key} |-> IF k = key THEN e ELSE idx[k]]

\* IndexedPageStore::classify_page
classify_page(p) ==
    IF p.type \in {1, 2, 3, 4, 8, 9, 10, 11, 13, 15} THEN p.type
    ELSE IF p.obj_id > 0 /\ p.obj_id < 100 THEN 5 ELSE 0

\* Decompressor::decompress_into on a source that starts at window w: a
\* source without the magic is copied as it is, a block yields the pages
\* its payload decodes to (none when both decoders fail), cut at capacity
decompress_into(src, cap) ==
    IF src = <<>> THEN <<>>
    ELSE IF ~src[1].magic THEN SubSeq(src, 1, Min(Len(src), cap))
    ELSE SubSeq(src[1].dec, 1, Min(Len(src[1].dec), cap))

\* the pages scan_stripe walks in the chunk it read: the decompressed
\* buffer when decompression produced bytes, the raw chunk otherwise
ChunkPages(chunk, compressed) ==
    IF compressed
    THEN LET d == decompress_into(chunk, DECOMP_FACTOR * Len(chunk))
         IN IF Len(d) > 0 THEN d ELSE chunk
    ELSE chunk

\* the test scan_stripe makes before it indexes a window
IsIndexable(p) == p.this_page # 0 \/ p.this_file # 0

\* the entry scan_stripe builds for page j of the chunk read at the scan start
ScanEntry(s, p, j, dso) ==
    PageIndexEntry(s, classify_page(p), p.obj_id, ScanStart(dso) + (j - 1) * PAGE_SIZE)

\* a variant of the stripe loop that gives up after a thread's first stripe
NextStripeNone(s, nthreads, nstripes) == nstripes

\* the stripe a scan thread takes after stripe s: s += actual_threads; the
\* thread returns when s is no stripe any more
NextStripe(s, nthreads, nstripes) == s + nthreads

\* a variant of the join loop that does not wait
JoinedNoWait(ws, nstripes) == TRUE

\* the join loop of scan(): every scan thread has returned
Joined(ws, nstripes) == \A t \in DOMAIN ws : ws[t].s >= nstripes

\* the (key, entry) pairs of an index in the order the map is iterated
RECURSIVE PairsOf(_)
PairsOf(idx) ==
    IF DOMAIN idx = {} THEN <<>>
    ELSE LET k == CHOOSE x \in DOMAIN idx : TRUE
         IN <<(<<k, idx[k]>>)>> \o PairsOf([x \in DOMAIN idx \ {k} |-> idx[x]])

\* PageIndex::save_to_file: the 64-byte header, then the pairs.  The header
\* field entry_count is a uint32; an index of the model is far below 2^32
IndexFile(idx) ==
    [present |-> TRUE, magic |-> "BAKRIDX", version |-> 1,
     entry_count |-> Cardinality(DOMAIN idx), pairs |-> PairsOf(idx)]

\* an index file left by another tool or another format version
StaleFile(magic, version) ==
    [present |-> TRUE, magic |-> magic, version |-> version, entry_count |-> 1,
     pairs |-> <<(<<make_page_key(1, 101), PageIndexEntry(0, PT_DATA, 300, PAGE_SIZE)>>)>>]

\* a variant of the header test that does not look at magic and version
LoadOkUnchecked(f) == f.present

\* PageIndex::load_from_file: the file opens, magic and version match
LoadOk(f) == f.present /\ f.magic = "BAKRIDX" /\ f.version = 1

\* the read loop of load_from_file: entries_[key] = entry, entry_count times
RECURSIVE LoadPairs(_, _, _)
LoadPairs(pairs, n, acc) ==
    IF n = 0 \/ pairs = <<>> THEN acc
    ELSE LoadPairs(Tail(pairs), n - 1, add_entry(acc, Head(pairs)[1], Head(pairs)[2]))

\* a variant of the loader that stops one entry early
load_from_file_short(f) == LoadPairs(f.pairs, f.entry_count - 1, EmptyIndex)

\* load_from_file once the header was accepted: the map is cleared and read
load_from_file(f) == LoadPairs(f.pairs, f.entry_count, EmptyIndex)

\* an index file that ends before its entry_count records: pairs are the
\* records it holds in full, cut is the key of a record whose entry is cut
\* short, or NoKey
TruncatedFile(entry_count, pairs, cut) ==
    [present |-> TRUE, magic |-> "BAKRIDX", version |-> 1, entry_count |-> entry_count,
     pairs |-> pairs, cut |-> cut]
Complete(f) == Len(f.pairs) >= f.entry_count

\* what the locals key and entry of the read loop may hold after a read
\* that failed: they are not initialized and the reads are not tested
GarbageKeys == {NoKey, make_page_key(1, 100)}
GarbageEntries == {PageIndexEntry(0, 0, 0, 0), PageIndexEntry(3, PT_DATA, 9, PAGE_SIZE)}

\* the read loop on a file that may end early: every iteration assigns
\* entries_[key] = entry, whether or not its reads succeeded
RECURSIVE LoadChoices(_, _, _, _)
LoadChoices(pairs, cut, n, acc) ==
    IF n = 0 THEN {acc}
    ELSE IF pairs # <<>>
    THEN LoadChoices(Tail(pairs), cut, n - 1, add_entry(acc, Head(pairs)[1], Head(pairs)[2]))
    ELSE UNION {LoadChoices(<<>>, NoKey, n - 1, add_entry(acc, k, e)) :
                   k \in (IF cut # NoKey THEN {cut} ELSE GarbageKeys), e \in GarbageEntries}

\* the indexes load_from_file may leave once the header was accepted
LoadResults(f) ==
    IF Complete(f) THEN {load_from_file(f)}
    ELSE LoadChoices(f.pairs, f.cut, f.entry_count, EmptyIndex)


(* ------------------------------------------------------------------ *)
(* LRUPageCache: most recently used first                             *)
(* ------------------------------------------------------------------ *)
CacheKeys(c) == {c[i].key : i \in DOMAIN c}
CachePos(c, key) == CHOOSE i \in DOMAIN c : c[i].key = key
Without(c, key) == SelectSeq(c, LAMBDA e : e.key # key)

\* LRUPageCache::get: a hit moves the entry to the front
CacheGet(c, key) == <<c[CachePos(c, key)]>> \o Without(c, key)

\* evict_if_needed: drop from the back while size >= max_pages
RECURSIVE evict_if_needed(_, _)
evict_if_needed(c, max_pages) ==
    IF Len(c) >= max_pages /\ c # <<>>
    THEN evict_if_needed(SubSeq(c, 1, Len(c) - 1), max_pages)
    ELSE c

\* LRUPageCache::put
CachePut(c, key, data, max_pages) ==
    IF key \in CacheKeys(c)
    THEN <<[key |-> key, data |-> data]>> \o Without(c, key)
    ELSE <<[key |-> key, data |-> data]>> \o evict_if_needed(c, max_pages)

\* LRUPageCache::remove
CacheRemove(c, key) == Without(c, key)

\* LRUPageCache::resize: drop from the back while size > max_pages
CacheResize(c, max_pages) == SubSeq(c, 1, Min(Len(c), max_pages))

(* ------------------------------------------------------------------ *)
(* DirectExtractor: page loading, catalog, row loop                   *)
(* ------------------------------------------------------------------ *)
\* the header test of phase_load_pages before a window is cached
ValidHeader(p) ==
    /\ p.header_version = 1
    /\ p.type >= 1 /\ p.type <= MAX_PAGE_TYPE
    /\ p.this_file >= 1 /\ p.this_file <= MAX_FILE_ID
    /\ p.slot_count <= MAX_SLOT_COUNT
    /\ p.free_count <= PAGE_SIZE

\* DirectExtractor::cache_page: nothing with an indexed store, and the
\* first image of a key stays
cache_page(pc, p, has_store) ==
    IF has_store \/ KeyOf(p) \in DOMAIN pc THEN pc
    ELSE [k \in DOMAIN pc \cup {KeyOf(p)} |-> IF k = KeyOf(p) THEN p ELSE pc[k]]

\* the 8 KiB walk of one stripe in phase_load_pages; windows are aligned
\* to the scan start, so the 512-byte retry of a stripe without a valid
\* window finds nothing either
RECURSIVE LoadStripe(_, _)
LoadStripe(st, ws) ==
    IF ws = <<>> THEN st
    ELSE IF ValidHeader(Head(ws))
    THEN LoadStripe([cache |-> cache_page(st.cache, Head(ws), FALSE),
                     found |-> st.found + 1], Tail(ws))
    ELSE LoadStripe(st, Tail(ws))

RECURSIVE LoadStripes(_, _)
LoadStripes(st, strs) ==
    IF strs = <<>> THEN st ELSE LoadStripes(LoadStripe(st, Head(strs)), Tail(strs))

\* scan_stripe for page j of stripe s, on the index and the insertion history
IndexPage(st, s, p, j, dso) ==
    IF IsIndexable(p)
    THEN [index |-> add_entry(st.index, KeyOf(p), ScanEntry(s, p, j, dso)),
          log |-> Append(st.log, <<KeyOf(p), ScanEntry(s, p, j, dso)>>)]
    ELSE st

\* scan_stripe from page j on, as the only scan thread runs it
RECURSIVE ScanStripeFrom(_, _, _, _, _)
ScanStripeFrom(st, s, pages, j, dso) ==
    IF j > Len(pages) THEN st
    ELSE ScanStripeFrom(IndexPage(st, s, pages[j], j, dso), s, pages, j + 1, dso)

\* IndexedPageStore::read_page_from_stripe: seek to e.file_offset, read one
\* window and decompress it when the store knows the backup as compressed.
\* The windows of a stripe start at the scan start the header of the file
\* gives (dso is the data start offset that header holds), whatever the
\* store has in data_start_offset_
read_page_from_stripe(e, strs, dso, compressed) ==
    LET w == (e.file_offset - ScanStart(dso)) \div PAGE_SIZE + 1
    IN IF e.stripe_index < 0 \/ e.stripe_index >= Len(strs) THEN [ok |-> FALSE, data |-> PgZero]
       ELSE IF w < 1 \/ w > Len(strs[e.stripe_index + 1]) THEN [ok |-> FALSE, data |-> PgZero]
       ELSE LET raw == strs[e.stripe_index + 1][w]
                d == decompress_into(<<raw>>, READ_DECOMP_PAGES)
            IN [ok |-> TRUE,
                data |-> IF compressed /\ Len(d) >= 1 THEN d[1] ELSE raw]

\* the pages a page provider hands out, by key
StoredPages(idx, strs, dso, compressed) ==
    LET ok == {k \in DOMAIN idx : read_page_from_stripe(idx[k], strs, dso, compressed).ok}
    IN [k \in ok |-> read_page_from_stripe(idx[k], strs, dso, compressed).data]

\* the page ids below limit of file 1 a provider has, in ascending order
RECURSIVE Ascending(_)
Ascending(S) ==
    IF S = {} THEN <<>>
    ELSE LET m == CHOOSE x \in S : \A y \in S : x <= y
         IN <<m>> \o Ascending(S \ {m})
CatalogPids(P, limit) ==
    Ascending({k[2] : k \in {q \in DOMAIN P : q[1] = PRIMARY_FILE_ID /\ q[2] >= 1 /\ q[2] < limit}})

\* the slots of the data pages with header obj_id obj, in page and slot order
RECURSIVE SlotsOf(_, _, _)
SlotsOf(P, pids, obj) ==
    IF pids = <<>> THEN <<>>
    ELSE LET p == P[<<PRIMARY_FILE_ID, Head(pids)>>]
         IN (IF p.type = PT_DATA /\ p.slot_count # 0 /\ p.obj_id = obj THEN p.recs ELSE <<>>)
              \o SlotsOf(P, Tail(pids), obj)

Put(m, k, v) == [x \in DOMAIN m \cup {k} |-> IF x = k THEN v ELSE m[x]]

\* scan_system_objects: objects_[obj_id] = obj for every plausible record
RECURSIVE CollectObjects(_, _)
CollectObjects(m, recs) ==
    IF recs = <<>> THEN m
    ELSE LET r == Head(recs)
         IN IF r.k = "obj" /\ r.id > 0 /\ r.major > 0 /\ r.major <= 65536 /\ r.name # ""
            THEN CollectObjects(Put(m, r.id, r), Tail(recs))
            ELSE CollectObjects(m, Tail(recs))

\* scan_rowset_allocunit_mapping, step 1: rowsetid -> object_id
RECURSIVE CollectRowsets(_, _)
CollectRowsets(m, recs) ==
    IF recs = <<>> THEN m
    ELSE LET r == Head(recs)
         IN IF r.k = "rowset" /\ r.minor <= 1 /\ r.major > 0
            THEN CollectRowsets(Put(m, r.id, r.major), Tail(recs))
            ELSE CollectRowsets(m, Tail(recs))

\* scan_rowset_allocunit_mapping, step 2: object_id -> page header obj_id
RECURSIVE CollectAllocUnits(_, _, _)
CollectAllocUnits(m, hobt, recs) ==
    IF recs = <<>> THEN m
    ELSE LET r == Head(recs)
         IN IF r.k = "alloc" /\ r.minor = 1 /\ r.major \in DOMAIN hobt
            THEN CollectAllocUnits(Put(m, hobt[r.major], (r.id \div 65536) % 65536),
                                   hobt, Tail(recs))
            ELSE CollectAllocUnits(m, hobt, Tail(recs))

\* CatalogReader::read_boot_page
read_boot_page(P) ==
    /\ <<PRIMARY_FILE_ID, BOOT_PAGE_ID>> \in DOMAIN P
    /\ P[<<PRIMARY_FILE_ID, BOOT_PAGE_ID>>].type = PT_BOOT

CatalogObjects(P) ==
    CollectObjects(<<>>, SlotsOf(P, CatalogPids(P, CATALOG_PAGE_LIMIT), OBJ_SYSSCHOBJS))

CatalogPageObjIds(P) ==
    LET pids == CatalogPids(P, CATALOG_PAGE_LIMIT)
        hobt == CollectRowsets(<<>>, SlotsOf(P, pids, OBJ_SYSROWSETS))
    IN CollectAllocUnits(<<>>, hobt, SlotsOf(P, pids, OBJ_SYSALLOCUNITS))

\* CatalogReader::get_page_obj_id
get_page_obj_id(m, object_id) == IF object_id \in DOMAIN m THEN m[object_id] ELSE 0

\* tolower on the names of the model
ToLower(s) == CASE s = "T1" -> "t1" [] s = "DBO" -> "dbo" [] OTHER -> s

\* CatalogReader::schema_name_for_id
schema_name_for_id(nsid) ==
    CASE nsid = 1 -> "dbo" [] nsid = 2 -> "guest" [] nsid = 3 -> "INFORMATION_SCHEMA"
      [] nsid = 4 -> "sys" [] OTHER -> "dbo"

\* CatalogReader::resolve_table: the objects the name lookup may stop at
ResolveMatches(objs, schema, table) ==
    {id \in DOMAIN objs :
        /\ objs[id].type = "U"
        /\ ToLower(objs[id].name) = ToLower(table)
        /\ (schema # "" => ToLower(schema_name_for_id(objs[id].major)) = ToLower(schema))}

\* RowDecoder::decode_page: the rows of the slots decode_row accepts
decode_page(p) ==
    IF p.type # PT_DATA THEN <<>> ELSE SelectSeq(p.recs, LAMBDA r : r.k = "row")

\* candidate pages of phase_extract_rows, taken from page_cache_
CandidatePages(pc, objid, hints) ==
    {k \in DOMAIN pc :
        /\ pc[k].type = PT_DATA
        /\ pc[k].slot_count # 0
        /\ pc[k].obj_id = objid
        /\ (hints # {} => k \in hints)}

\* the orders in which a hash map may be iterated
Orders(S) == {f \in [1..Cardinality(S) -> S] : \A i, j \in DOMAIN f : i # j => f[i] # f[j]}

\* the page loop and the row loop of phase_extract_rows, run up to the
\* next call of the row callback ("rows") or to the return ("done")
RECURSIVE PageLoop(_, _, _, _, _)
RECURSIVE RowLoop(_, _, _, _, _, _)
AfterRows(todo, total, handed, mr, pc) ==
    IF mr >= 0 /\ total >= mr
    THEN [phase |-> "done", todo |-> todo, rowq |-> <<>>, total |-> total, handed |-> handed]
    ELSE PageLoop(todo, total, handed, mr, pc)
PageLoop(todo, total, handed, mr, pc) ==
    IF todo = <<>>
    THEN [phase |-> "done", todo |-> todo, rowq |-> <<>>, total |-> total, handed |-> handed]
    ELSE LET rows == decode_page(pc[Head(todo)])
         IN IF Len(rows) <= 0
            THEN PageLoop(Tail(todo), total, handed \cup {Head(todo)}, mr, pc)
            ELSE RowLoop(Tail(todo), rows, total, handed \cup {Head(todo)}, mr, pc)
RowLoop(todo, rowq, total, handed, mr, pc) ==
    IF rowq # <<>> /\ ~(mr >= 0 /\ total >= mr)
    THEN [phase |-> "rows", todo |-> todo, rowq |-> rowq, total |-> total, handed |-> handed]
    ELSE AfterRows(todo, total, handed, mr, pc)

(* ------------------------------------------------------------------ *)
(* State                                                              *)
(* ------------------------------------------------------------------ *)
VARIABLES
    stripes,            \* bak_paths_: the windows of each stripe file from the scan start
    hdr,                \* the header region of the first stripe
    cfg,                \* IndexedStoreConfig: num_threads, force_rescan, cache_pages
    index,              \* index_.entries_ : page key -> PageIndexEntry
    indexed,            \* indexed_
    is_compressed,      \* is_compressed_
    data_start_offset,  \* data_start_offset_
    workers,            \* scan threads: the stripe and the page each one is at
    spc,                \* where the thread that called scan() is: "idle" or "join"
    pending,            \* the key of the get_page call that started the scan, or NoKey
    cache,              \* cache_ (LRUPageCache), most recently used first
    sidecar,            \* the index file next to the backup
    got,                \* result of the last get_page call
    log,                \* history: the add_entry calls of the current scan, in order
    use_indexed_mode,   \* DirectExtractorConfig::use_indexed_mode
    caller,             \* who runs the extractor: "api" (bakread_extract) or "pipeline"
    target,             \* target_schema_ and target_table_
    max_rows,           \* max_rows_
    allocation_hints,   \* allocation_hints_
    phase,              \* "config", "rows" (inside the row callback) or "done"
    page_cache,         \* page_cache_
    schema_object_id,   \* schema_.object_id
    todo,               \* candidate pages the page loop has not taken yet
    rowq,               \* rows of the current page from the one handed to the callback on
    total_rows,         \* total_rows of phase_extract_rows
    sink,               \* the writer of the pipeline: "closed", "good" or "bad"
    result,             \* DirectExtractResult
    handed,             \* history: keys of the pages given to decode_page
    emitted,            \* history: the rows the callback was called with
    stop_at,            \* history: the call at which the callback first said stop, or 0
    requests,           \* history: the keys requested from the cache since it was built
    prev,               \* history: how the earlier run on this backup ended, if there was one
    catalog,            \* a CatalogReader: its page provider, objects_, columns_, obj_to_page_objid_
    decoding,           \* a RowDecoder at work: schema_, the record and the decoded row
    pipe,               \* a Pipeline: opts_ and what run() did
    handle,             \* a ReaderState of the C API with its extractor
    queue               \* a RowQueue and the threads that call it

scanVars == <<stripes, hdr, cfg, index, indexed, is_compressed, data_start_offset,
              workers, spc, pending, cache, sidecar, got, log>>

extVars == <<use_indexed_mode, caller, target, max_rows, allocation_hints, phase,
             page_cache, schema_object_id, todo, rowq, total_rows, sink, result,
             handed, emitted, stop_at>>

appVars == <<pipe, handle, queue>>

auxVars == <<requests, prev, catalog, decoding, appVars>>

vars == <<scanVars, extVars, auxVars>>

\* no page was requested yet; pure says that requests are all that was done
NoRequests == [pure |-> TRUE, keys |-> <<>>]

\* no run went before this one
NoPrev == [ran |-> FALSE, success |-> FALSE, rows_read |-> 0, emitted |-> <<>>, stop_at |-> 0]

\* a CatalogReader after construction, over the pages P of a provider
NewCatalogReader(P) ==
    [pages |-> P, objects |-> <<>>, columns |-> <<>>, obj_to_page_objid |-> <<>>,
     runs |-> 0, ok |-> FALSE]

\* no RowDecoder was built
\* table is the column list resolve_table found, target_columns the column
\* filter, warnings the names the filter warned about;
\* page is the buffer given to decode_page; before and beyond are what the
\* memory next to that buffer holds (a 16-bit word, a byte) and mapped tells
\* whether that memory can be read at all
NoDecoder ==
    [schema |-> <<>>, rec |-> <<>>, done |-> FALSE, ok |-> FALSE, out_row |-> <<>>,
     page |-> <<>>, before |-> 0, beyond |-> 0, mapped |-> TRUE,
     crashed |-> FALSE, rows |-> <<>>, reads |-> {},
     table |-> <<>>, target_columns |-> <<>>, resolved |-> FALSE, warnings |-> <<>>]

\* no Pipeline, no API handle and no RowQueue were made
NoPipeline == [mode |-> "none"]
NoHandle == [open |-> FALSE]
NoQueue == [capacity |-> 0]
NoApp == pipe = NoPipeline /\ handle = NoHandle /\ queue = NoQueue

FreshAux ==
    /\ requests = NoRequests
    /\ prev = NoPrev
    /\ catalog = NewCatalogReader(<<>>)
    /\ decoding = NoDecoder
    /\ NoApp

NoResult == [key |-> NoKey, ok |-> FALSE, data |-> PgZero]

SeqsUpTo(W, n) == UNION {[1..m -> W] : m \in 1..n}

\* one or two stripes with MaxWindows windows between them
StripeLayouts(W) ==
    {<<a>> : a \in SeqsUpTo(W, MaxWindows)}
      \cup {<<a, b>> : a \in SeqsUpTo(W, MaxWindows - 1), b \in SeqsUpTo(W, MaxWindows - 1)}

\* the cache holds no page at all (cache_size_mb = 0) or MaxCachePages pages
StoreConfigs ==
    [num_threads : ThreadCounts, force_rescan : BOOLEAN, cache_pages : {0, MaxCachePages}]

ScanHeaders == {HdrPlain, HdrCompressed}

\* state of a freshly constructed IndexedPageStore
FreshStore ==
    /\ index = EmptyIndex
    /\ indexed = FALSE
    /\ is_compressed = FALSE
    /\ data_start_offset = 0
    /\ workers = <<>>
    /\ spc = "idle"
    /\ pending = NoKey
    /\ cache = <<>>
    /\ got = NoResult
    /\ log = <<>>

NoExtractResult ==
    [success |-> FALSE, rows_read |-> 0, tde_detected |-> FALSE,
     encryption_detected |-> FALSE, error |-> ""]

\* state of a freshly constructed DirectExtractor
FreshExtractor ==
    /\ target = [schema |-> "", table |-> ""]
    /\ max_rows = -1
    /\ allocation_hints = {}
    /\ phase = "config"
    /\ page_cache = <<>>
    /\ schema_object_id = 0
    /\ todo = <<>>
    /\ rowq = <<>>
    /\ total_rows = 0
    /\ sink = "closed"
    /\ result = NoExtractResult
    /\ handed = {}
    /\ emitted = <<>>
    /\ stop_at = 0

InitScan ==
    /\ use_indexed_mode = TRUE
    /\ caller = "api"
    /\ FreshExtractor
    /\ hdr \in ScanHeaders
    /\ stripes \in StripeLayouts(IF hdr = HdrCompressed THEN CompressedWindows ELSE RawWindows)
    /\ Len(stripes) \in StripeCounts
    /\ SeqSum([i \in DOMAIN stripes |-> Len(stripes[i])]) <= MaxWindows
    /\ cfg \in StoreConfigs
    /\ sidecar = NoFile
    /\ FreshStore
    /\ FreshAux

\* a variant of get_page that also caches the zero page of a failed lookup
GetIndexedCacheMisses(key, idx, c, dso, compressed) ==
    IF key \in CacheKeys(c)
    THEN [cache |-> CacheGet(c, key),
          got |-> [key |-> key, ok |-> TRUE, data |-> c[CachePos(c, key)].data]]
    ELSE [cache |-> CachePut(c, key, PgZero, cfg.cache_pages),
          got |-> [key |-> key, ok |-> key \in DOMAIN idx, data |-> PgZero]]

\* IndexedPageStore::get_page once the index is built: cache, index, stripe
GetIndexed(key, idx, c, dso, compressed) ==
    IF key \in CacheKeys(c)
    THEN [cache |-> CacheGet(c, key),
          got |-> [key |-> key, ok |-> TRUE, data |-> c[CachePos(c, key)].data]]
    ELSE IF key \notin DOMAIN idx
    THEN [cache |-> c, got |-> [key |-> key, ok |-> FALSE, data |-> PgZero]]
    ELSE LET r == read_page_from_stripe(idx[key], stripes, dso, compressed)
         IN IF ~r.ok
            THEN [cache |-> c, got |-> [key |-> key, ok |-> FALSE, data |-> PgZero]]
            ELSE [cache |-> CachePut(c, key, r.data, cfg.cache_pages),
                  got |-> [key |-> key, ok |-> TRUE, data |-> r.data]]

\* the caller's get_page, if any, continues after scan() returned true
AfterScan(key, idx, dso, compressed) ==
    IF key = NoKey
    THEN UNCHANGED <<cache, got>>
    ELSE LET r == GetIndexed(key, idx, cache, dso, compressed)
         IN cache' = r.cache /\ got' = r.got

\* scan() from its entry to the launch of the scan threads
ScanStartup(key) ==
    IF indexed
    THEN /\ AfterScan(key, index, ParseDataStart(hdr), is_compressed)
         /\ UNCHANGED <<index, indexed, is_compressed, data_start_offset,
                        workers, spc, pending, log>>
    ELSE IF ~cfg.force_rescan /\ LoadOk(sidecar)
    THEN /\ \E idx \in LoadResults(sidecar) :
               /\ index' = idx
               /\ AfterScan(key, idx, ParseDataStart(hdr), is_compressed)
         /\ indexed' = TRUE
         /\ UNCHANGED <<is_compressed, data_start_offset, workers, spc, pending, log>>
    ELSE IF ParseThrows(hdr)
    THEN UNCHANGED <<index, indexed, is_compressed, data_start_offset,
                     workers, spc, pending, cache, got, log>>
    ELSE /\ data_start_offset' = ParseDataStart(hdr)
         /\ is_compressed' = IsCompressedSet(ParseSets(hdr))
         /\ workers' = [t \in 0..(Min(cfg.num_threads, Len(stripes)) - 1) |-> [s |-> t, j |-> 1]]
         /\ spc' = "join"
         /\ pending' = key
         /\ log' = <<>>
         /\ UNCHANGED <<index, indexed, cache, got>>

\* IndexedPageStore::scan called directly
Scan ==
    /\ spc = "idle"
    /\ ScanStartup(NoKey)
    /\ UNCHANGED <<stripes, hdr, cfg, sidecar>>
    /\ UNCHANGED <<extVars, auxVars>>

\* one iteration of the page loop of scan_stripe in scan thread t
WorkerStep(t) ==
    /\ t \in DOMAIN workers
    /\ workers[t].s < Len(stripes)
    /\ LET s == workers[t].s
           pages == ChunkPages(stripes[s + 1], is_compressed)
           j == workers[t].j
           p == pages[j]
           st == IndexPage([index |-> index, log |-> log], s, p, j, data_start_offset)
       IN /\ index' = st.index
          /\ log' = st.log
          /\ workers' = [workers EXCEPT ![t] =
                           IF j < Len(pages) THEN [s |-> s, j |-> j + 1]
                           ELSE [s |-> NextStripe(s, Cardinality(DOMAIN workers), Len(stripes)), j |-> 1]]
    /\ UNCHANGED <<stripes, hdr, cfg, indexed, is_compressed, data_start_offset,
                   spc, pending, cache, sidecar, got>>
    /\ UNCHANGED <<extVars, auxVars>>

\* scan() from the join of the scan threads to its return
ScanJoin ==
    /\ spc = "join"
    /\ Joined(workers, Len(stripes))
    /\ sidecar' = IF DOMAIN index # {} THEN IndexFile(index) ELSE sidecar
    /\ indexed' = TRUE
    /\ spc' = "idle"
    /\ pending' = NoKey
    /\ AfterScan(pending, index, ParseDataStart(hdr), is_compressed)
    /\ UNCHANGED <<stripes, hdr, cfg, index, is_compressed, data_start_offset, workers, log>>
    /\ UNCHANGED <<extVars, auxVars>>

\* the keys a caller asks for
ProbeKeys == {<<1, 100>>, <<1, 101>>}

\* IndexedPageStore::get_page
GetPage(key) ==
    /\ spc = "idle"
    /\ ScanStartup(key)
    /\ UNCHANGED <<stripes, hdr, cfg, sidecar>>
    /\ UNCHANGED <<extVars, auxVars>>

\* the process ends and a later run opens the same backup with a new store
Reopen ==
    /\ spc = "idle"
    /\ indexed
    /\ cfg' \in {c \in StoreConfigs : c.num_threads = cfg.num_threads
                                         /\ c.cache_pages = cfg.cache_pages}
    /\ index' = EmptyIndex
    /\ indexed' = FALSE
    /\ is_compressed' = FALSE
    /\ data_start_offset' = 0
    /\ workers' = <<>>
    /\ pending' = NoKey
    /\ cache' = <<>>
    /\ got' = NoResult
    /\ log' = <<>>
    /\ UNCHANGED <<stripes, hdr, spc, sidecar>>
    /\ UNCHANGED <<extVars, auxVars>>

NextScan ==
    \/ Scan
    \/ \E t \in ThreadCounts : WorkerStep(t - 1)
    \/ ScanJoin
    \/ \E key \in ProbeKeys : GetPage(key)
    \/ Reopen

SpecScan == InitScan /\ [][NextScan]_vars

(* ------------------------------------------------------------------ *)
(* Properties of the scan                                             *)
(* ------------------------------------------------------------------ *)
AllDone == \A t \in DOMAIN workers : workers[t].s >= Len(stripes)

\* scan() has run its threads in this store and has returned
ScanFinished == indexed /\ spc = "idle" /\ workers # <<>> /\ AllDone

\* what the header of the first stripe says, and the pages a stripe holds
HdrCompressedFlag == IsCompressedSet(ParseSets(hdr))
StripePages(s) == ChunkPages(stripes[s + 1], HdrCompressedFlag)
StripeIds == 0..(Len(stripes) - 1)
StripesWith(k) ==
    {s \in StripeIds : \E j \in DOMAIN StripePages(s) :
        IsIndexable(StripePages(s)[j]) /\ KeyOf(StripePages(s)[j]) = k}
ObservedKeys ==
    UNION {{KeyOf(StripePages(s)[j]) : j \in {i \in DOMAIN StripePages(s) :
                                               IsIndexable(StripePages(s)[i])}} : s \in StripeIds}

MaxOf(S) == CHOOSE x \in S : \A y \in S : y <= x

\* the entry of the last page with key k in stripe s
LastEntryIn(s, k) ==
    LET j == MaxOf({i \in DOMAIN StripePages(s) : KeyOf(StripePages(s)[i]) = k})
    IN ScanEntry(s, StripePages(s)[j], j, ParseDataStart(hdr))

\* the index a scan that takes the stripes one after the other builds
SeqIndex == [k \in ObservedKeys |-> LastEntryIn(MaxOf(StripesWith(k)), k)]

LogOf(k) == {i \in DOMAIN log : log[i][1] = k}
LogKeys == {log[i][1] : i \in DOMAIN log}

\* C8 as stated: after a scan the index has one entry for every key that
\* was observed, and on duplicates it is the entry with the highest file
\* offset that is kept.
C8_HighestOffsetKept ==
    ScanFinished =>
        /\ DOMAIN index = ObservedKeys
        /\ \A k \in DOMAIN index : \A i \in LogOf(k) :
               log[i][2].file_offset <= index[k].file_offset

\* C8, amended: after a scan the index has exactly one entry for every key
\* that was observed, and on duplicates it is the entry inserted last that
\* is kept; among the duplicates of one stripe of an uncompressed backup
\* that is the one with the highest file offset.
C8_LastInsertedKept ==
    ScanFinished =>
        /\ DOMAIN index = ObservedKeys
        /\ LogKeys = ObservedKeys
        /\ \A k \in DOMAIN index :
              /\ index[k] = log[MaxOf(LogOf(k))][2]
              /\ ~is_compressed =>
                    \A i \in LogOf(k) :
                        log[i][2].stripe_index = index[k].stripe_index
                            => log[i][2].file_offset <= index[k].file_offset

\* a scan of an uncompressed backup that met one key twice, with two entries
C8_Witness ==
    /\ ScanFinished
    /\ ~is_compressed
    /\ \E i, j \in DOMAIN log :
          /\ i < j
          /\ log[i][1] = log[j][1]
          /\ log[i][2].stripe_index = log[j][2].stripe_index
          /\ log[i][2] # log[j][2]

\* C9 as stated: the index a parallel scan ends with does not depend on
\* the interleaving of the scan threads, so it is the index the scan
\* builds when the threads run one after the other.
C9_SameForEveryInterleaving == ScanFinished => index = SeqIndex

\* C9, amended: the keys of the final index do not depend on the
\* interleaving; the entry of a key is the last one of some stripe that
\* holds the key, and it is independent of the interleaving when all the
\* stripes that hold the key are scanned by the same thread.
C9_KeysSameEntriesFromSomeStripe ==
    ScanFinished =>
        /\ DOMAIN index = ObservedKeys
        /\ \A k \in DOMAIN index :
              /\ \E s \in StripesWith(k) : index[k] = LastEntryIn(s, k)
              /\ (\A s1, s2 \in StripesWith(k) :
                      s1 % Cardinality(DOMAIN workers) = s2 % Cardinality(DOMAIN workers))
                    => index[k] = SeqIndex[k]

\* two threads have scanned two stripes that hold the same key, and the
\* entry of the first stripe is the one that stayed
C9_Witness ==
    /\ ScanFinished
    /\ Cardinality(DOMAIN workers) = 2
    /\ \E k \in DOMAIN index :
          /\ StripesWith(k) = {0, 1}
          /\ index[k].stripe_index = 0
          /\ index[k] # SeqIndex[k]

\* C10: the index is written during the scan only: indexed becomes true
\* only when every scan thread has returned, the index does not change
\* while indexed is true, and a page read of the catalog or row path never
\* happens while a scan thread is still running.
C10_IndexFrozenOnceIndexed ==
    [][/\ (~indexed /\ indexed') => \A t \in DOMAIN workers' : workers'[t].s >= Len(stripes)
       /\ (indexed /\ indexed') => index' = index
       /\ (got' # got \/ cache' # cache) => AllDone]_vars

\* a two-thread scan has built a non-empty index and a page was read from it
C10_Witness ==
    /\ ScanFinished
    /\ Cardinality(DOMAIN workers) = 2
    /\ DOMAIN index # {}
    /\ got.ok
    /\ got.key \in DOMAIN index

\* the same backups with one scan thread, and an index file that may be
\* there before the first run: none, or one with another magic or version
ForeignSidecars == {NoFile, StaleFile("BAKRIDY", 1), StaleFile("BAKRIDX", 2)}

InitSidecar ==
    /\ use_indexed_mode = TRUE
    /\ caller = "api"
    /\ FreshExtractor
    /\ hdr \in ScanHeaders
    /\ stripes \in StripeLayouts(IF hdr = HdrCompressed THEN CompressedWindows ELSE RawWindows)
    /\ Len(stripes) \in StripeCounts
    /\ SeqSum([i \in DOMAIN stripes |-> Len(stripes[i])]) <= MaxWindows
    /\ cfg \in {c \in StoreConfigs : c.num_threads = 1 /\ c.cache_pages = MaxCachePages}
    /\ sidecar \in ForeignSidecars
    /\ FreshStore
    /\ FreshAux

SpecSidecar == InitSidecar /\ [][NextScan]_vars

\* stores that find an index file that ends early, or one that is whole
ShortSidecars ==
    {StaleFile("BAKRIDX", 1),
     TruncatedFile(2, <<>>, NoKey),
     TruncatedFile(2, <<(<<make_page_key(1, 101), PageIndexEntry(0, PT_DATA, 256, PAGE_SIZE)>>)>>, NoKey),
     TruncatedFile(2, <<(<<make_page_key(1, 101), PageIndexEntry(0, PT_DATA, 256, PAGE_SIZE)>>)>>,
                   make_page_key(1, 100))}

InitLoad ==
    /\ use_indexed_mode = TRUE
    /\ caller = "api"
    /\ FreshExtractor
    /\ hdr \in ScanHeaders
    /\ stripes \in StripeLayouts(IF hdr = HdrCompressed THEN CompressedWindows ELSE RawWindows)
    /\ Len(stripes) \in StripeCounts
    /\ SeqSum([i \in DOMAIN stripes |-> Len(stripes[i])]) <= MaxWindows
    /\ cfg \in {c \in StoreConfigs : c.num_threads = 1 /\ c.cache_pages = MaxCachePages}
    /\ sidecar \in ShortSidecars
    /\ FreshStore
    /\ FreshAux

SpecLoad == InitLoad /\ [][NextScan]_vars

\* the index was loaded from the index file by this store
LoadedFromFile == indexed /\ workers = <<>>

\* C29 as stated: load_from_file reports success only if the file holds
\* all the entry_count complete (key, entry) records its header announces;
\* an index loaded from the file holds nothing but records read in full
\* from the file.
C29_LoadFailsOnShortFile ==
    LoadedFromFile =>
        /\ Len(sidecar.pairs) >= sidecar.entry_count
        /\ \A k \in DOMAIN index :
              \E i \in DOMAIN sidecar.pairs : sidecar.pairs[i] = <<k, index[k]>>

MismatchedFile(f) == f.present /\ (f.magic # "BAKRIDX" \/ f.version # 1)

\* C17: an index file whose magic or version does not match is ignored:
\* the load attempt leaves the index as it was, scan() goes on to scan
\* the stripes, and the index it ends with is the one a scan without any
\* index file builds.
C17_MismatchedFileIgnored ==
    /\ [][(MismatchedFile(sidecar) /\ ~indexed /\ (Scan \/ \E key \in ProbeKeys : GetPage(key)))
            => (index' = index /\ ~indexed' /\ workers' # <<>> /\ spc' = "join")]_vars
    /\ [](MismatchedFile(sidecar) => ~LoadedFromFile)
    /\ [](ScanFinished => index = SeqIndex)

\* a scan has walked the stripes while the mismatching file was there
C17_Witness ==
    /\ MismatchedFile(sidecar)
    /\ spc = "join"
    /\ AllDone
    /\ DOMAIN index # {}
    /\ index # load_from_file(sidecar)

\* the window of its stripe an index entry points at, and the page the
\* scan saw there when it built the entry
EntryWindow(e) == (e.file_offset - ScanStart(ParseDataStart(hdr))) \div PAGE_SIZE + 1
InsertedPage(e) == StripePages(e.stripe_index)[EntryWindow(e)]

\* decompress_into returned 0 for the chunk of stripe s
ChunkFailed(s) == decompress_into(stripes[s + 1], DECOMP_FACTOR * Len(stripes[s + 1])) = <<>>

\* C23 as stated: in a compressed backup a chunk for which decompress_into
\* returned 0 yields nothing: no add_entry call is made for a window of it
\* and no page of it is cached.
C23_FailedChunkYieldsNothing ==
    HdrCompressedFlag =>
        /\ \A i \in DOMAIN log : ~ChunkFailed(log[i][2].stripe_index)
        /\ \A i \in DOMAIN cache :
              cache[i].key \in DOMAIN index => ~ChunkFailed(index[cache[i].key].stripe_index)

\* C11 as stated: every page inserted into the index has header_version 1,
\* a type in 1..17, a file id in 1..32 and at most 1000 slots.
C11_InsertedPagesPassHeaderTest ==
    \A i \in DOMAIN log :
        LET p == InsertedPage(log[i][2])
        IN /\ p.header_version = 1
           /\ p.type >= 1 /\ p.type <= MAX_PAGE_TYPE
           /\ p.this_file >= 1 /\ p.this_file <= MAX_FILE_ID
           /\ p.slot_count <= MAX_SLOT_COUNT

\* what get_page reads for an index entry in the store as it is
ReadBack(k) == read_page_from_stripe(index[k], stripes, ParseDataStart(hdr), is_compressed)

\* C12 as stated: once the index is built (by a scan or from the sidecar),
\* reading the page at the entry's offset from the entry's stripe succeeds
\* and gives a page whose header (this_file, this_page) is the key, for
\* uncompressed and for compressed backups.
C12_ReadBackHasKey ==
    indexed => \A k \in DOMAIN index : ReadBack(k).ok /\ KeyOf(ReadBack(k).data) = k

\* C15: every key the LRU cache holds is a key of the page index.
C15_CacheKeysInIndex == CacheKeys(cache) \subseteq DOMAIN index

\* a get_page call after a scan has put a page into the cache
C15_Witness ==
    /\ ScanFinished
    /\ cache # <<>>
    /\ got.ok
    /\ got.key \in CacheKeys(cache)

(* ------------------------------------------------------------------ *)
(* DirectExtractor::extract and its callers                           *)
(* ------------------------------------------------------------------ *)
\* the first stripe's system pages and the data pages behind them
SysVariants ==
    {<<PgBoot, PgSysObj, PgRowsets, PgAlloc>>, <<PgBoot, PgSysObj>>,
     <<PgBoot, PgRowsets, PgAlloc>>, <<PgSysObj, PgRowsets, PgAlloc>>, <<>>}
DataVariants ==
    {<<>>, <<PgD1>>, <<PgD1, PgD2>>, <<PgD1, PgD1Dup, PgD2>>,
     <<PgD1, PgD2, PgOther, PgEmpty, PgBadHdr>>}
ExtractHeaders == {HdrPlain, HdrDirbOnly, HdrNoSignature, HdrTooSmall}
TableNames == {"T1", "zz"}
HintChoices == {{}, {<<1, 101>>}}

\* a compressed backup: one block with the system pages of the database,
\* and behind it windows that hold single pages
CompressedStripes ==
    {<<Block(<<PgBoot, PgSysObj, PgRowsets, PgAlloc>>), PgSysObj, PgRowsets, PgAlloc>>,
     <<Block(<<PgBoot, PgSysObj>>), PgSysObj, PgD1>>}

Init ==
    /\ \/ /\ hdr \in ExtractHeaders
          /\ \E sys \in SysVariants, data \in DataVariants : stripes = <<sys \o data>>
          /\ use_indexed_mode \in BOOLEAN
       \/ /\ hdr = HdrCompressed
          /\ \E s \in CompressedStripes : stripes = <<s>>
          /\ use_indexed_mode = TRUE
    /\ cfg = [num_threads |-> 1, force_rescan |-> FALSE, cache_pages |-> MaxCachePages]
    /\ sidecar = NoFile
    /\ FreshStore
    /\ FreshAux
    /\ caller \in {"api", "pipeline"}
    /\ FreshExtractor

storeVars == <<index, indexed, is_compressed, data_start_offset, workers, sidecar,
               cache, got, log>>

\* DirectExtractor::set_table
SetTable(schema, table) ==
    /\ phase = "config"
    /\ target' = [schema |-> schema, table |-> table]
    /\ UNCHANGED <<auxVars, scanVars, use_indexed_mode, caller, max_rows, allocation_hints, phase,
                   page_cache, schema_object_id, todo, rowq, total_rows, sink, result,
                   handed, emitted, stop_at>>

\* DirectExtractor::set_max_rows
SetMaxRows(n) ==
    /\ phase = "config"
    /\ max_rows' = n
    /\ UNCHANGED <<auxVars, scanVars, use_indexed_mode, caller, target, allocation_hints, phase,
                   page_cache, schema_object_id, todo, rowq, total_rows, sink, result,
                   handed, emitted, stop_at>>

\* DirectExtractor::set_allocation_hints
SetAllocationHints(h) ==
    /\ phase = "config"
    /\ allocation_hints' = h
    /\ UNCHANGED <<auxVars, scanVars, use_indexed_mode, caller, target, max_rows, phase,
                   page_cache, schema_object_id, todo, rowq, total_rows, sink, result,
                   handed, emitted, stop_at>>

Failure(err, tde, enc) ==
    [success |-> FALSE, rows_read |-> 0, tde_detected |-> tde,
     encryption_detected |-> enc, error |-> err]
Success(n) ==
    [success |-> TRUE, rows_read |-> n, tde_detected |-> FALSE,
     encryption_detected |-> FALSE, error |-> ""]

\* phase_parse_headers: what parse() returns when it does not throw
ParseReturns(h) == TRUE

\* the scan of phase_load_pages in indexed mode, run by the single scan
\* thread of a one-stripe backup while the caller waits in the join
RECURSIVE SoloScan(_, _, _, _)
SoloScan(st, s, dso, compressed) ==
    IF s >= Len(stripes) THEN st
    ELSE SoloScan(ScanStripeFrom(st, s, ChunkPages(stripes[s + 1], compressed), 1, dso),
                  NextStripe(s, 1, Len(stripes)), dso, compressed)

\* phase_load_pages: the store and the page cache after it, and its result
LoadOutcome ==
    IF use_indexed_mode
    THEN IF ~cfg.force_rescan /\ LoadOk(sidecar)
         THEN [ok |-> TRUE, page_cache |-> page_cache, index |-> load_from_file(sidecar),
               is_compressed |-> is_compressed, data_start_offset |-> data_start_offset,
               workers |-> workers, sidecar |-> sidecar, log |-> log]
         ELSE LET dso == ParseDataStart(hdr)
                  comp == IsCompressedSet(ParseSets(hdr))
                  st == SoloScan([index |-> index, log |-> <<>>], 0, dso, comp)
              IN [ok |-> TRUE, page_cache |-> page_cache, index |-> st.index,
                  is_compressed |-> comp, data_start_offset |-> dso,
                  workers |-> [t \in {0} |-> [s |-> Len(stripes), j |-> 1]],
                  sidecar |-> IF DOMAIN st.index # {} THEN IndexFile(st.index) ELSE sidecar,
                  log |-> st.log]
    ELSE LET st == LoadStripes([cache |-> page_cache, found |-> 0], stripes)
         IN [ok |-> st.found > 0, page_cache |-> st.cache, index |-> index,
             is_compressed |-> is_compressed, data_start_offset |-> data_start_offset,
             workers |-> workers, sidecar |-> sidecar, log |-> log]

\* the get_page calls of scan_catalog: the boot page, then the page walks
\* of the catalog scans over file 1
RECURSIVE Repeat(_, _)
Repeat(seq, n) == IF n = 0 THEN <<>> ELSE seq \o Repeat(seq, n - 1)
KeysOf(pids) == [i \in DOMAIN pids |-> <<PRIMARY_FILE_ID, pids[i]>>]
CatalogAccesses(P, boot_ok) ==
    <<(<<PRIMARY_FILE_ID, BOOT_PAGE_ID>>)>> \o
    (IF ~boot_ok THEN <<>>
     ELSE Repeat(KeysOf(CatalogPids(P, CATALOG_PAGE_LIMIT)), 5)
            \o KeysOf(CatalogPids(P, 2 * CATALOG_PAGE_LIMIT))
            \o Repeat(KeysOf(CatalogPids(P, CATALOG_PAGE_LIMIT)), 3)
            \o <<(<<PRIMARY_FILE_ID, CATALOG_PAGE_LIMIT - 1>>)>>)

\* the calls are made one after the other: each one is completed, down to
\* the length of the cache it leaves, before the next begins
RECURSIVE GetAll(_, _, _, _, _)
GetAll(st, keys, idx, dso, compressed) ==
    IF keys = <<>> \/ Len(st.cache) < 0 THEN st
    ELSE GetAll(GetIndexed(Head(keys), idx, st.cache, dso, compressed),
                Tail(keys), idx, dso, compressed)

\* the extractor's variables when extract() returns res
Return(res) ==
    /\ phase' = "done"
    /\ result' = res
    /\ UNCHANGED <<todo, rowq, total_rows, handed>>

\* the extractor's variables after the loops of phase_extract_rows ran to st
Continue(st) ==
    /\ phase' = st.phase
    /\ todo' = st.todo
    /\ rowq' = st.rowq
    /\ total_rows' = st.total
    /\ handed' = st.handed
    /\ result' = IF st.phase = "done" THEN Success(st.total) ELSE result

\* DirectExtractor::extract, from its entry to the first call of the row
\* callback, or to its return when no row is handed out
Extract ==
    /\ phase \in {"config", "again"}
    /\ LET sets == ParseSets(hdr)
           at_load == ~ParseThrows(hdr) /\ ParseReturns(hdr)
                        /\ ~is_tde_enabled(sets) /\ ~is_backup_encrypted(sets)
           L == LoadOutcome
           P == IF use_indexed_mode
                THEN StoredPages(L.index, stripes, ParseDataStart(hdr), L.is_compressed)
                ELSE L.page_cache
           boot_ok == read_boot_page(P)
           matches == ResolveMatches(CatalogObjects(P), target.schema, target.table)
           reads == GetAll([cache |-> cache, got |-> got], CatalogAccesses(P, boot_ok),
                           L.index, ParseDataStart(hdr), L.is_compressed)
       IN /\ IF at_load
             THEN /\ page_cache' = L.page_cache
                  /\ index' = L.index
                  /\ indexed' = (use_indexed_mode \/ indexed)
                  /\ is_compressed' = L.is_compressed
                  /\ data_start_offset' = L.data_start_offset
                  /\ workers' = L.workers
                  /\ sidecar' = L.sidecar
                  /\ log' = L.log
                  /\ IF use_indexed_mode /\ L.ok
                     THEN cache' = reads.cache /\ got' = reads.got
                     ELSE UNCHANGED <<cache, got>>
             ELSE UNCHANGED <<page_cache, storeVars>>
          /\ CASE ParseThrows(hdr) ->
                    Return(Failure("format", FALSE, FALSE)) /\ UNCHANGED schema_object_id
               [] ~ParseThrows(hdr) /\ ~ParseReturns(hdr) ->
                    Return(Failure("headers", FALSE, FALSE)) /\ UNCHANGED schema_object_id
               [] at_load /\ ~L.ok ->
                    Return(Failure("pages", FALSE, FALSE)) /\ UNCHANGED schema_object_id
               [] at_load /\ L.ok /\ (~boot_ok \/ matches = {}) ->
                    Return(Failure("resolve", FALSE, FALSE)) /\ UNCHANGED schema_object_id
               [] at_load /\ L.ok /\ boot_ok /\ matches # {} ->
                    \E oid \in matches :
                       LET objid == get_page_obj_id(CatalogPageObjIds(P), oid)
                       IN /\ schema_object_id' = oid
                          /\ IF objid = 0
                             THEN Return(Success(0))
                             ELSE \E order \in Orders(CandidatePages(L.page_cache, objid,
                                                                     allocation_hints)) :
                                     Continue(PageLoop(order, 0, {}, max_rows, L.page_cache))
               [] OTHER ->
                    Return(Failure(IF is_tde_enabled(sets) THEN "tde" ELSE "encryption",
                                   is_tde_enabled(sets), ~is_tde_enabled(sets)))
                      /\ UNCHANGED schema_object_id
    /\ UNCHANGED <<auxVars, stripes, hdr, cfg, spc, pending, use_indexed_mode, caller, target,
                   max_rows, allocation_hints, sink, emitted, stop_at>>

\* the row callback returns: bakread_extract passes on what the caller's
\* function says, the pipeline's callback says whether write_row succeeded;
\* the row loop then runs to the next call or extract() returns
Callback(ret) ==
    /\ phase = "rows"
    /\ caller = "pipeline" => (sink = "bad" => ~ret)
    /\ sink' = IF caller = "pipeline" THEN (IF ret THEN "good" ELSE "bad") ELSE sink
    /\ emitted' = Append(emitted, Head(rowq).id)
    /\ stop_at' = IF ~ret /\ stop_at = 0 THEN Len(emitted) + 1 ELSE stop_at
    /\ Continue(IF ret
                THEN RowLoop(todo, Tail(rowq), total_rows + 1, handed, max_rows, page_cache)
                ELSE AfterRows(todo, total_rows, handed, max_rows, page_cache))
    /\ UNCHANGED <<auxVars, scanVars, use_indexed_mode, caller, target, max_rows, allocation_hints,
                   page_cache, schema_object_id>>

\* the process ends; a later process opens the same backup in indexed
\* mode with a new extractor and a new store, with or without force_rescan,
\* and is about to extract the same table with the same settings
Rerun ==
    /\ phase = "done"
    /\ use_indexed_mode
    /\ ~prev.ran
    /\ prev' = [ran |-> TRUE, success |-> result.success, rows_read |-> result.rows_read,
                emitted |-> emitted, stop_at |-> stop_at]
    /\ cfg' \in {[cfg EXCEPT !.force_rescan = b] : b \in BOOLEAN}
    /\ index' = EmptyIndex
    /\ indexed' = FALSE
    /\ is_compressed' = FALSE
    /\ data_start_offset' = 0
    /\ workers' = <<>>
    /\ cache' = <<>>
    /\ got' = NoResult
    /\ log' = <<>>
    /\ phase' = "again"
    /\ page_cache' = <<>>
    /\ schema_object_id' = 0
    /\ todo' = <<>>
    /\ rowq' = <<>>
    /\ total_rows' = 0
    /\ sink' = "closed"
    /\ result' = NoExtractResult
    /\ handed' = {}
    /\ emitted' = <<>>
    /\ stop_at' = 0
    /\ UNCHANGED <<stripes, hdr, spc, pending, sidecar, use_indexed_mode, caller, target,
                   max_rows, allocation_hints, requests, catalog, decoding, appVars>>

Next ==
    \/ Rerun
    \/ \E table \in TableNames : SetTable("dbo", table)
    \/ \E n \in -1..MaxMaxRows : SetMaxRows(n)
    \/ \E h \in HintChoices : SetAllocationHints(h)
    \/ Extract
    \/ \E ret \in BOOLEAN : Callback(ret)

Spec == Init /\ [][Next]_vars

(* ------------------------------------------------------------------ *)
(* Properties of extract                                              *)
(* ------------------------------------------------------------------ *)
\* the pages the page provider of the extractor hands out
ProviderPages ==
    IF use_indexed_mode
    THEN StoredPages(index, stripes, ParseDataStart(hdr), is_compressed)
    ELSE page_cache

\* the page header obj_id the catalog gives for the resolved table
TargetPageObjId == get_page_obj_id(CatalogPageObjIds(ProviderPages), schema_object_id)

\* the indexed data pages of the target table
TargetDataPages ==
    IF use_indexed_mode
    THEN {k \in DOMAIN index : index[k].page_type = PT_DATA /\ index[k].object_id = TargetPageObjId}
    ELSE {k \in DOMAIN page_cache :
             page_cache[k].type = PT_DATA /\ page_cache[k].obj_id = TargetPageObjId}

\* C1 as stated: when no callback stopped the run and max_rows does not
\* cut it, the pages handed to the row decoder are the indexed data pages
\* whose header obj_id is the target's, cut to the hint set when there is
\* one, in indexed and in non-indexed mode.
C1_HandedPagesAreTargetPages ==
    (phase = "done" /\ result.success /\ TargetPageObjId # 0 /\ stop_at = 0 /\ max_rows = -1)
        => handed = (IF allocation_hints = {} THEN TargetDataPages
                     ELSE TargetDataPages \cap allocation_hints)

\* C2 as stated: once the row callback has returned stop, it is not called
\* again in this call and the extraction ends.
C2_NoCallAfterStop ==
    stop_at # 0 => (Len(emitted) = stop_at /\ phase = "done")

\* C3 as stated: with max_rows = N >= 0 the callback is called at most N
\* times and rows_read is at most N.
C3_AtMostMaxRowsCalls ==
    max_rows >= 0 => (Len(emitted) <= max_rows /\ result.rows_read <= max_rows)

\* C5 as stated: when the table is not resolved, or the catalog has no page
\* obj_id for it, extract returns success = false and no row is emitted.
C5_UnknownTableFails ==
    (phase = "done" /\ (schema_object_id = 0 \/ TargetPageObjId = 0))
        => (~result.success /\ emitted = <<>>)

NoSignature == hdr.blocks = <<>> /\ ~ParseThrows(hdr)

C7_SinkFailureIsTerminal ==
    (caller = "pipeline" /\ sink = "bad")
        => (Len(emitted) = stop_at /\ (phase = "done" => ~result.success))

\* the later run got as far as phase_load_pages
RerunLoaded ==
    prev.ran /\ phase = "done" /\ result.error \in {"", "pages", "resolve"}

CacheProbeKeys == {<<1, 100>>, <<1, 101>>, <<1, 102>>}
ImagesOf(key) == {p \in {PgD1, PgD1Dup, PgD2, PgOther} : KeyOf(p) = key}

\* capacities: cache_size_mb = 0 gives 0 pages
Capacities == 0..(MaxCachePages + 1)

InitCache ==
    /\ stripes = <<<<PgD1, PgD2, PgOther>>>>
    /\ hdr = HdrPlain
    /\ cfg \in [num_threads : {1}, force_rescan : {FALSE}, cache_pages : Capacities]
    /\ sidecar = NoFile
    /\ FreshStore
    /\ FreshAux
    /\ use_indexed_mode = TRUE
    /\ caller = "api"
    /\ FreshExtractor

\* what a cache operation leaves alone
CacheFrame ==
    UNCHANGED <<stripes, hdr, index, indexed, is_compressed, data_start_offset,
                workers, spc, pending, sidecar, got, log, extVars>>

Impure == [pure |-> FALSE, keys |-> <<>>]

\* a page request as get_page makes it: get, and on a miss put the page read
PageRequest(key) ==
    /\ requests.pure => Len(requests.keys) < MaxRequests
    /\ cache' = IF key \in CacheKeys(cache) THEN CacheGet(cache, key)
                ELSE CachePut(cache, key, CHOOSE p \in ImagesOf(key) : TRUE, cfg.cache_pages)
    /\ UNCHANGED <<prev, catalog, decoding, appVars>>
    /\ requests' = IF requests.pure
                   THEN [requests EXCEPT !.keys = Append(@, key)] ELSE requests
    /\ UNCHANGED cfg
    /\ CacheFrame

\* LRUPageCache::put called directly
PutOp(key) ==
    /\ \E p \in ImagesOf(key) : cache' = CachePut(cache, key, p, cfg.cache_pages)
    /\ UNCHANGED <<prev, catalog, decoding, appVars>>
    /\ requests' = Impure
    /\ UNCHANGED cfg
    /\ CacheFrame

\* LRUPageCache::get called directly
GetOp(key) ==
    /\ cache' = IF key \in CacheKeys(cache) THEN CacheGet(cache, key) ELSE cache
    /\ UNCHANGED <<prev, catalog, decoding, appVars>>
    /\ requests' = Impure
    /\ UNCHANGED cfg
    /\ CacheFrame

RemoveOp(key) ==
    /\ cache' = CacheRemove(cache, key)
    /\ UNCHANGED <<prev, catalog, decoding, appVars>>
    /\ requests' = Impure
    /\ UNCHANGED cfg
    /\ CacheFrame

ResizeOp(n) ==
    /\ cfg' = [cfg EXCEPT !.cache_pages = n]
    /\ cache' = CacheResize(cache, n)
    /\ UNCHANGED <<prev, catalog, decoding, appVars>>
    /\ requests' = Impure
    /\ CacheFrame

ClearOp ==
    /\ cache' = <<>>
    /\ UNCHANGED <<prev, catalog, decoding, appVars>>
    /\ requests' = Impure
    /\ UNCHANGED cfg
    /\ CacheFrame

NextCache ==
    \/ \E key \in CacheProbeKeys : PageRequest(key)
    \/ \E key \in CacheProbeKeys : PutOp(key)
    \/ \E key \in CacheProbeKeys : GetOp(key)
    \/ \E key \in CacheProbeKeys : RemoveOp(key)
    \/ \E n \in Capacities : ResizeOp(n)
    \/ ClearOp

SpecCache == InitCache /\ [][NextCache]_vars

\* the n keys requested last in ks, the latest first
RECURSIVE RecentKeys(_, _, _)
RecentKeys(ks, n, acc) ==
    IF ks = <<>> \/ Len(acc) >= n THEN acc
    ELSE LET last == ks[Len(ks)]
             rest == SubSeq(ks, 1, Len(ks) - 1)
         IN RecentKeys(rest, n, IF \E i \in DOMAIN acc : acc[i] = last
                                THEN acc ELSE Append(acc, last))

\* C13 as stated: after page requests only, a cache of capacity C holds
\* exactly the C keys requested most recently (all of them when fewer than
\* C distinct keys were requested), a hit counting as a request.
C13_HoldsMostRecentKeys ==
    requests.pure =>
        CacheKeys(cache) =
            {RecentKeys(requests.keys, cfg.cache_pages, <<>>)[i] :
                i \in DOMAIN RecentKeys(requests.keys, cfg.cache_pages, <<>>)}

\* C14 as stated: after any sequence of put, get, remove, resize and clear
\* the cache never holds more pages than its capacity, for every capacity
\* including 0.
C14_SizeWithinCapacity == Len(cache) <= cfg.cache_pages


(* ------------------------------------------------------------------ *)
(* CatalogReader on its own                                           *)
(* ------------------------------------------------------------------ *)
\* syscolpars pages: columns of t1 out of colid order, a record of an object
\* sysschobjs does not have, a record with colid 0, and two records of one colid
PgCols == Page(1, PT_DATA, 1, 23, OBJ_SYSCOLPARS, 0,
               <<ColRec(1000, 2, "b"), ColRec(1000, 1, "a"), ColRec(2000, 1, "x"),
                 ColRec(1000, 0, "z")>>)
PgColsTie == Page(1, PT_DATA, 1, 24, OBJ_SYSCOLPARS, 0,
                  <<ColRec(1001, 1, "p"), ColRec(1001, 1, "q")>>)

\* the provider of a CatalogReader: the pages of S by key
PagesOf(S) == [k \in {KeyOf(p) : p \in S} |-> CHOOSE p \in S : KeyOf(p) = k]

CatalogPageSets ==
    {b \cup o \cup c \cup r \cup a :
        b \in {{}, {PgBoot}}, o \in {{}, {PgSysObj}},
        c \in {{}, {PgCols}, {PgColsTie}, {PgCols, PgColsTie}},
        r \in {{}, {PgRowsets}}, a \in {{}, {PgAlloc}}}

\* scan_system_columns, the page loop: columns_[obj_id].push_back(col) for
\* every record of an object objects_ has, with colid in 1..4096
RECURSIVE CollectColumns(_, _, _)
CollectColumns(m, objs, recs) ==
    IF recs = <<>> THEN m
    ELSE LET r == Head(recs)
         IN IF r.k = "col" /\ r.id \in DOMAIN objs /\ r.major > 0 /\ r.major <= 4096
            THEN CollectColumns(Put(m, r.id, (IF r.id \in DOMAIN m THEN m[r.id] ELSE <<>>)
                                               \o <<r>>), objs, Tail(recs))
            ELSE CollectColumns(m, objs, Tail(recs))

\* s without its first element equal to v
RECURSIVE DropFirst(_, _)
DropFirst(s, v) ==
    IF s = <<>> THEN <<>>
    ELSE IF Head(s) = v THEN Tail(s) ELSE <<Head(s)>> \o DropFirst(Tail(s), v)

\* std::sort by column_id: every order of s that ascends in column_id
\* (the order of records of equal column_id is not specified)
RECURSIVE SortChoices(_)
SortChoices(s) ==
    IF s = <<>> THEN {<<>>}
    ELSE LET least == {s[i] : i \in {j \in DOMAIN s : \A k \in DOMAIN s : s[j].major <= s[k].major}}
         IN UNION {{<<v>> \o rest : rest \in SortChoices(DropFirst(s, v))} : v \in least}

\* scan_system_columns, the final loop: every list of columns_ sorted
SortedColumns(m) == {f \in [DOMAIN m -> UNION {SortChoices(m[o]) : o \in DOMAIN m}] :
                        \A o \in DOMAIN m : f[o] \in SortChoices(m[o])}

InitCatalog ==
    /\ stripes = <<<<PgD1, PgD2, PgOther>>>>
    /\ hdr = HdrPlain
    /\ cfg = [num_threads |-> 1, force_rescan |-> FALSE, cache_pages |-> MaxCachePages]
    /\ sidecar = NoFile
    /\ FreshStore
    /\ requests = NoRequests
    /\ prev = NoPrev
    /\ decoding = NoDecoder
    /\ NoApp
    /\ \E S \in CatalogPageSets : catalog = NewCatalogReader(PagesOf(S))
    /\ use_indexed_mode = TRUE
    /\ caller = "api"
    /\ FreshExtractor

\* CatalogReader::scan_catalog on the reader as it is
ScanCatalog ==
    /\ catalog.runs < MaxScans
    /\ LET P == catalog.pages
           pids == CatalogPids(P, CATALOG_PAGE_LIMIT)
           objs == CollectObjects(catalog.objects, SlotsOf(P, pids, OBJ_SYSSCHOBJS))
           cols == CollectColumns(catalog.columns, objs, SlotsOf(P, pids, OBJ_SYSCOLPARS))
           hobt == CollectRowsets(<<>>, SlotsOf(P, pids, OBJ_SYSROWSETS))
           pobj == CollectAllocUnits(catalog.obj_to_page_objid, hobt,
                                     SlotsOf(P, pids, OBJ_SYSALLOCUNITS))
       IN IF ~read_boot_page(P)
          THEN catalog' = [catalog EXCEPT !.runs = @ + 1, !.ok = FALSE]
          ELSE \E sorted \in SortedColumns(cols) :
                  catalog' = [catalog EXCEPT !.objects = objs, !.columns = sorted,
                                             !.obj_to_page_objid = pobj,
                                             !.runs = @ + 1, !.ok = TRUE]
    /\ UNCHANGED <<scanVars, extVars, requests, prev, decoding, appVars>>

NextCatalog == ScanCatalog

SpecCatalog == InitCatalog /\ [][NextCatalog]_vars

\* C19 as stated: a run of scan_catalog on a CatalogReader that has scanned
\* the same pages before leaves objects, the per-object column lists and the
\* object_id -> page obj_id map as the earlier run left them.
C19_ScanCatalogIdempotent ==
    [][(ScanCatalog /\ catalog.runs >= 1)
          => /\ catalog'.objects = catalog.objects
             /\ catalog'.columns = catalog.columns
             /\ catalog'.obj_to_page_objid = catalog.obj_to_page_objid]_vars

(* ------------------------------------------------------------------ *)
(* RowDecoder on its own: records as bytes                            *)
(* ------------------------------------------------------------------ *)
\* RecordStatus bits of the first byte of a record
HasNullBitmap == 16
HasVarColumns == 32

Max(a, b) == IF a > b THEN a ELSE b

\* rec[i] and the little-endian uint16 at rec + i; rec holds the bytes from
\* the record's offset to the end of the page, so Len(rec) is max_len
ByteAt(rec, i) == rec[i + 1]
U16At(rec, i) == ByteAt(rec, i) + 256 * ByteAt(rec, i + 1)
\* byte & mask # 0 for a mask of one bit
HasFlag(byte, mask) == (byte \div mask) % 2 = 1

\* RowValue: NullValue, an integer, a string
NullValue == [k |-> "null", v |-> <<>>]
IntValue(n) == [k |-> "int", v |-> <<n>>]
StringValue(s) == [k |-> "string", v |-> s]

ColumnDef(type, max_length, leaf_offset) ==
    [type |-> type, max_length |-> max_length, leaf_offset |-> leaf_offset]
is_fixed_length(type) == type \in {"TinyInt", "SmallInt", "DateTime2"}

\* RowDecoder::RowDecoder: the fixed columns with their offsets, the variable columns
RECURSIVE Layout(_, _, _, _)
Layout(columns, i, cur_offset, acc) ==
    IF i > Len(columns) THEN acc
    ELSE IF is_fixed_length(columns[i].type)
         THEN LET off == IF columns[i].leaf_offset > 0 THEN columns[i].leaf_offset
                         ELSE cur_offset
              IN Layout(columns, i + 1, off + columns[i].max_length,
                        [acc EXCEPT !.fixed_col_indices = Append(@, i),
                                    !.fixed_col_offsets = Append(@, off)])
         ELSE Layout(columns, i + 1, cur_offset,
                     [acc EXCEPT !.var_col_indices = Append(@, i)])
RowDecoder(schema) ==
    Layout(schema, 1, 4, [schema |-> schema, fixed_col_indices |-> <<>>,
                          fixed_col_offsets |-> <<>>, var_col_indices |-> <<>>])

\* data[i] of a decoder that does not test len: past the end of the page it
\* reads the memory that lies beyond the buffer
MemAt(rec, i) == IF i < Len(rec) THEN rec[i + 1] ELSE decoding.beyond

\* decode_datetime2 for scale 0: the time bytes, then 3 date bytes
time_bytes_of(scale) == IF scale <= 2 THEN 3 ELSE IF scale <= 4 THEN 4 ELSE 5
decode_datetime2(rec, off) ==
    [k |-> "datetime2", v |-> [i \in 1..(time_bytes_of(0) + 3) |-> MemAt(rec, off + i - 1)]]

\* RowDecoder::bytes_to_value on len bytes at rec + off
bytes_to_value(rec, off, len, col) ==
    IF len = 0 THEN NullValue
    ELSE CASE col.type = "DateTime2" -> decode_datetime2(rec, off)
           [] col.type = "TinyInt" ->
                 IntValue(IF ByteAt(rec, off) >= 128 THEN ByteAt(rec, off) - 256
                          ELSE ByteAt(rec, off))
           [] col.type = "SmallInt" ->
                 IF len < 2 THEN NullValue
                 ELSE IntValue(IF U16At(rec, off) >= 32768 THEN U16At(rec, off) - 65536
                               ELSE U16At(rec, off))
           [] OTHER -> StringValue(SubSeq(rec, off + 1, off + len))

\* decode_row, the header: fixed_end and the null bitmap area
fixed_end_of(rec) == U16At(rec, 2)
NullAreaRead(rec) ==
    HasFlag(ByteAt(rec, 0), HasNullBitmap) /\ fixed_end_of(rec) + 2 <= Len(rec)
rec_col_count_of(rec) == U16At(rec, fixed_end_of(rec))
null_area_size_of(rec) ==
    IF NullAreaRead(rec) THEN 2 + (rec_col_count_of(rec) + 7) \div 8 ELSE 0

\* decode_row: null_bits, one flag per schema column (column i of the model
\* is column i - 1 of the code)
null_bits(rec, n) ==
    [col \in 1..n |->
        /\ NullAreaRead(rec)
        /\ fixed_end_of(rec) + null_area_size_of(rec) <= Len(rec)
        /\ col - 1 < rec_col_count_of(rec)
        /\ HasFlag(ByteAt(rec, fixed_end_of(rec) + 2 + (col - 1) \div 8),
                   2 ^ ((col - 1) % 8))]

\* decode_row: the variable-length column offset array
VarArrayRead(rec) ==
    /\ HasFlag(ByteAt(rec, 0), HasVarColumns)
    /\ fixed_end_of(rec) + null_area_size_of(rec) + 2 <= Len(rec)
var_end_offsets(rec) ==
    IF ~VarArrayRead(rec) THEN <<>>
    ELSE LET start == fixed_end_of(rec) + null_area_size_of(rec) + 2
         IN [v \in 1..U16At(rec, start - 2) |->
                IF start + 2 * v <= Len(rec) THEN U16At(rec, start + 2 * (v - 1)) ELSE 0]
\* var_data_start_offset: where the offset array was left, as uint16
var_data_start_offset(rec) ==
    LET start == fixed_end_of(rec) + null_area_size_of(rec)
    IN IF ~VarArrayRead(rec) THEN start % 65536
       ELSE (start + 2 + 2 * Cardinality({v \in 1..U16At(rec, start) :
                                              start + 2 + 2 * v <= Len(rec)})) % 65536

\* decode_row without the null test of the fixed-length loop
FixedValueNoNullTest(dec, rec, fi) ==
    LET col == dec.schema[dec.fixed_col_indices[fi]]
        data_offset == Max(dec.fixed_col_offsets[fi], 4)
    IN IF data_offset >= fixed_end_of(rec) THEN NullValue
       ELSE bytes_to_value(rec, data_offset,
                           Min(fixed_end_of(rec) - data_offset, col.max_length), col)

\* decode_row: one turn of the fixed-length column loop
FixedValue(dec, rec, fi) ==
    LET ci == dec.fixed_col_indices[fi]
        col == dec.schema[ci]
        data_offset == Max(dec.fixed_col_offsets[fi], 4)
    IN IF null_bits(rec, Len(dec.schema))[ci] THEN NullValue
       ELSE IF data_offset >= fixed_end_of(rec) THEN NullValue
       ELSE bytes_to_value(rec, data_offset,
                           Min(fixed_end_of(rec) - data_offset, col.max_length), col)

\* decode_row: one turn of the variable-length column loop
VarValue(dec, rec, vi) ==
    LET ci == dec.var_col_indices[vi]
        ends == var_end_offsets(rec)
        start_off == IF vi = 1 THEN var_data_start_offset(rec) ELSE ends[vi - 1]
        end_off == ends[vi] % 32768
    IN IF null_bits(rec, Len(dec.schema))[ci] THEN NullValue
       ELSE IF vi > Len(ends) THEN NullValue
       ELSE IF ends[vi] >= 32768 THEN StringValue("[LOB data]")
       ELSE IF start_off >= end_off \/ end_off > Len(rec) THEN NullValue
       ELSE bytes_to_value(rec, start_off, end_off - start_off, dec.schema[ci])

PositionIn(s, x) == CHOOSE i \in DOMAIN s : s[i] = x

\* RowDecoder::decode_row
decode_row(dec, rec) ==
    IF Len(rec) < 4 \/ fixed_end_of(rec) > Len(rec)
    THEN [ok |-> FALSE, out_row |-> <<>>]
    ELSE [ok |-> TRUE,
          out_row |->
            [ci \in 1..Len(dec.schema) |->
                IF is_fixed_length(dec.schema[ci].type)
                THEN FixedValue(dec, rec, PositionIn(dec.fixed_col_indices, ci))
                ELSE VarValue(dec, rec, PositionIn(dec.var_col_indices, ci))]]

\* --- records to decode ---
U16(n) == <<n % 256, n \div 256>>
RECURSIVE Flatten(_)
Flatten(ss) == IF ss = <<>> THEN <<>> ELSE Head(ss) \o Flatten(Tail(ss))
\* the end offsets of variable data of the given lengths laid out from base
RECURSIVE EndOffsets(_, _)
EndOffsets(base, vals) ==
    IF vals = <<>> THEN <<>>
    ELSE <<base + Len(Head(vals))>> \o EndOffsets(base + Len(Head(vals)), Tail(vals))

\* a FixedVar record: status, fixed data, column count and one bitmap byte,
\* the variable columns vals (complex: the first end offset has its top bit
\* set), and the bytes of the page after the record
MakeRecord(status, fixed, count, bitmap, vals, complex, after) ==
    LET fixed_end == 4 + Len(fixed)
        nullarea == IF HasFlag(status, HasNullBitmap) THEN U16(count) \o <<bitmap>> ELSE <<>>
        base == fixed_end + Len(nullarea) + 2 + 2 * Len(vals)
        ends == EndOffsets(base, vals)
        vararea == IF HasFlag(status, HasVarColumns)
                   THEN U16(Len(vals))
                        \o Flatten([i \in DOMAIN ends |->
                                     U16(ends[i] + (IF complex /\ i = 1 THEN 32768 ELSE 0))])
                        \o Flatten(vals)
                   ELSE <<>>
    IN <<status, 0>> \o U16(fixed_end) \o fixed \o nullarea \o vararea \o after

StatusBytes == {0, HasNullBitmap, HasVarColumns, HasNullBitmap + HasVarColumns}
FixedData == {<<1, 2, 3>>, <<200, 255, 255>>}
ColumnCounts == {0, 2, 3}
BitmapBytes == 0..MaxBitmap
VarData == {<<>>, <<<<65>>>>, <<<<65, 66>>, <<>>>>, <<<<67>>, <<68>>>>}

WholeRecords ==
    {MakeRecord(s, f, c, b, v, x, a) :
        s \in StatusBytes, f \in FixedData, c \in ColumnCounts, b \in BitmapBytes,
        v \in VarData, x \in BOOLEAN, a \in {<<>>, <<9, 9>>}}
\* a record may lie so near the end of the page that the page ends inside it
Records == WholeRecords \cup {SubSeq(r, 1, Len(r) - cut) : r \in WholeRecords, cut \in 1..3}

Schemas ==
    {<<ColumnDef("TinyInt", 1, 0), ColumnDef("SmallInt", 2, 0), ColumnDef("VarChar", 10, 0)>>,
     <<ColumnDef("VarChar", 10, 0), ColumnDef("TinyInt", 1, 0), ColumnDef("VarChar", 10, 0)>>,
     <<ColumnDef("SmallInt", 2, 5), ColumnDef("VarChar", 10, 0)>>}

InitDecode ==
    /\ stripes = <<<<PgD1, PgD2, PgOther>>>>
    /\ hdr = HdrPlain
    /\ cfg = [num_threads |-> 1, force_rescan |-> FALSE, cache_pages |-> MaxCachePages]
    /\ sidecar = NoFile
    /\ FreshStore
    /\ requests = NoRequests
    /\ prev = NoPrev
    /\ NoApp
    /\ catalog = NewCatalogReader(<<>>)
    /\ \E schema \in Schemas, rec \in Records :
          decoding = [NoDecoder EXCEPT !.schema = schema, !.rec = rec]
    /\ use_indexed_mode = TRUE
    /\ caller = "api"
    /\ FreshExtractor

\* decode_row called on the record
DecodeRow ==
    /\ ~decoding.done
    /\ LET r == decode_row(RowDecoder(decoding.schema), decoding.rec)
       IN decoding' = [decoding EXCEPT !.done = TRUE, !.ok = r.ok, !.out_row = r.out_row]
    /\ UNCHANGED <<scanVars, extVars, requests, prev, catalog, appVars>>

NextDecode == DecodeRow

SpecDecode == InitDecode /\ [][NextDecode]_vars

\* bit ci - 1 of the record's null bitmap is set: the record has a null
\* bitmap, the page holds all of it, it covers the column, and the bit is 1
NullBitSet(rec, ci) ==
    /\ Len(rec) >= 1 /\ HasFlag(rec[1], HasNullBitmap)
    /\ Len(rec) >= 4
    /\ LET fe == rec[3] + 256 * rec[4]
       IN /\ fe + 2 <= Len(rec)
          /\ LET count == rec[fe + 1] + 256 * rec[fe + 2]
             IN /\ fe + 2 + (count + 7) \div 8 <= Len(rec)
                /\ ci <= count
                /\ (rec[fe + 3 + (ci - 1) \div 8] \div (2 ^ ((ci - 1) % 8))) % 2 = 1

\* C20: in every row decode_row decoded, every schema column whose bit is
\* set in the record's null bitmap has the value Null, whatever bytes the
\* record holds where the column's data would be.
C20_NullBitGivesNull ==
    (decoding.done /\ decoding.ok) =>
        \A ci \in DOMAIN decoding.schema :
            NullBitSet(decoding.rec, ci) => decoding.out_row[ci] = NullValue

\* a decoded row with a null fixed-length column over non-zero bytes, a null
\* variable-length column whose end offset is there, and a column that is
\* not null
C20_Witness ==
    /\ decoding.done /\ decoding.ok
    /\ \E ci \in DOMAIN decoding.schema :
          /\ NullBitSet(decoding.rec, ci)
          /\ is_fixed_length(decoding.schema[ci].type)
          /\ decoding.rec[5] = 200
    /\ \E ci \in DOMAIN decoding.schema :
          /\ NullBitSet(decoding.rec, ci)
          /\ ~is_fixed_length(decoding.schema[ci].type)
    /\ \E ci \in DOMAIN decoding.schema : decoding.out_row[ci].k = "string"

(* ------------------------------------------------------------------ *)
(* RowDecoder::decode_page on an 8 KiB buffer                         *)
(* ------------------------------------------------------------------ *)
\* RecordStatus::TypeMask, RecordStatus::ForwardingStub; the offset of
\* PageHeader::slot_count
TypeMask == 7
ForwardingStub == 2
SLOT_COUNT_OFFSET == 22

\* a buffer: the bytes that are not 0, by offset
BufByte(buf, i) == IF i \in DOMAIN buf THEN buf[i] ELSE 0
BufU16(buf, i) == BufByte(buf, i) + 256 * BufByte(buf, i + 1)

\* a buffer with header_version 1, the type and the slot count in its
\* header, the bytes r from offset on, and slot0 in the last slot array entry
BufferOf(type, slot_count, r, offset, slot0) ==
    ((PAGE_SIZE - 2) :> (slot0 % 256)) @@ ((PAGE_SIZE - 1) :> (slot0 \div 256))
    @@ (0 :> 1) @@ (1 :> type)
    @@ (SLOT_COUNT_OFFSET :> (slot_count % 256))
    @@ ((SLOT_COUNT_OFFSET + 1) :> (slot_count \div 256))
    @@ [i \in offset..(Min(offset + Len(r), PAGE_SIZE) - 1) |-> r[i - offset + 1]]

\* page_data + record_offset: the bytes from there to the end of the page
RecAt(buf, offset) == [i \in 1..(PAGE_SIZE - offset) |-> BufByte(buf, offset + i - 1)]

\* get_slot_offset: the entry at PAGE_SIZE - 2 * (slot_index + 1); an entry
\* that lies before the buffer is what the memory there holds
array_pos_of(slot_index) == PAGE_SIZE - 2 * (slot_index + 1)
get_slot_offset(buf, slot_index) ==
    IF array_pos_of(slot_index) >= 0 THEN BufU16(buf, array_pos_of(slot_index))
    ELSE decoding.before

\* the bytes bytes_to_value reads of the len bytes at off
ValueReads(off, len, col) ==
    IF len = 0 THEN {}
    ELSE CASE col.type = "DateTime2" -> {<<off, off + time_bytes_of(0) + 3>>}
           [] col.type = "TinyInt" -> {<<off, off + 1>>}
           [] col.type = "SmallInt" -> IF len < 2 THEN {} ELSE {<<off, off + 2>>}
           [] OTHER -> {<<off, off + len>>}

\* the bytes decode_row reads of rec, as ranges <<first, last + 1>> from rec on
RowReads(dec, rec) ==
    IF Len(rec) < 4 THEN {}
    ELSE IF fixed_end_of(rec) > Len(rec) THEN {<<0, 4>>}
    ELSE LET fe == fixed_end_of(rec)
             n == Len(dec.schema)
             nb == null_bits(rec, n)
             ends == var_end_offsets(rec)
             start == fe + null_area_size_of(rec)
         IN {<<0, 4>>}
            \cup (IF NullAreaRead(rec) THEN {<<fe, fe + 2>>} ELSE {})
            \cup (IF NullAreaRead(rec) /\ fe + null_area_size_of(rec) <= Len(rec)
                  THEN {<<fe + 2 + (c - 1) \div 8, fe + 3 + (c - 1) \div 8>> :
                           c \in {x \in 1..n : x - 1 < rec_col_count_of(rec)}}
                  ELSE {})
            \cup (IF VarArrayRead(rec)
                  THEN {<<start, start + 2>>}
                       \cup {<<start + 2 * v, start + 2 * v + 2>> :
                                v \in {x \in 1..Len(ends) : start + 2 + 2 * x <= Len(rec)}}
                  ELSE {})
            \cup UNION {LET off == Max(dec.fixed_col_offsets[fi], 4)
                            col == dec.schema[dec.fixed_col_indices[fi]]
                        IN IF nb[dec.fixed_col_indices[fi]] \/ off >= fe THEN {}
                           ELSE ValueReads(off, Min(fe - off, col.max_length), col) :
                        fi \in DOMAIN dec.fixed_col_indices}
            \cup UNION {LET ci == dec.var_col_indices[vi]
                            start_off == IF vi = 1 THEN var_data_start_offset(rec)
                                         ELSE ends[vi - 1]
                        IN IF nb[ci] \/ vi > Len(ends) THEN {}
                           ELSE IF ends[vi] >= 32768 THEN {}
                           ELSE IF start_off >= ends[vi] \/ ends[vi] > Len(rec) THEN {}
                           ELSE ValueReads(start_off, ends[vi] - start_off, dec.schema[ci]) :
                        vi \in DOMAIN dec.var_col_indices}

\* decode_page: the slots whose record decode_row is called on
DecodedSlots(buf) ==
    IF BufByte(buf, 1) # PT_DATA THEN {}
    ELSE {slot \in 0..(BufU16(buf, SLOT_COUNT_OFFSET) - 1) :
            /\ get_slot_offset(buf, slot) >= PAGE_HEADER_SIZE
            /\ get_slot_offset(buf, slot) < PAGE_SIZE - 2
            /\ BufByte(buf, get_slot_offset(buf, slot)) % (TypeMask + 1) # ForwardingStub}

\* decode_page: out_rows, the rows of the slots decode_row accepts, in slot order
RECURSIVE RowsOfSlots(_, _, _)
RowsOfSlots(dec, buf, slots) ==
    IF slots = {} THEN <<>>
    ELSE LET slot == CHOOSE s \in slots : \A o \in slots : s <= o
             r == decode_row(dec, RecAt(buf, get_slot_offset(buf, slot)))
         IN (IF r.ok THEN <<r.out_row>> ELSE <<>>) \o RowsOfSlots(dec, buf, slots \ {slot})
decode_page_bytes(dec, buf) == RowsOfSlots(dec, buf, DecodedSlots(buf))

\* the bytes decode_page reads, as ranges <<first, last + 1>> from the start
\* of the buffer, when it runs to its end
PageReads(dec, buf) ==
    {<<0, PAGE_HEADER_SIZE>>}
    \cup (IF BufByte(buf, 1) # PT_DATA THEN {}
          ELSE {<<array_pos_of(slot), array_pos_of(slot) + 2>> :
                   slot \in 0..(BufU16(buf, SLOT_COUNT_OFFSET) - 1)})
    \cup {<<get_slot_offset(buf, slot), get_slot_offset(buf, slot) + 1>> :
             slot \in {s \in 0..(BufU16(buf, SLOT_COUNT_OFFSET) - 1) :
                          /\ BufByte(buf, 1) = PT_DATA
                          /\ get_slot_offset(buf, s) >= PAGE_HEADER_SIZE
                          /\ get_slot_offset(buf, s) < PAGE_SIZE - 2}}
    \cup UNION {{<<get_slot_offset(buf, slot) + r[1], get_slot_offset(buf, slot) + r[2]>> :
                    r \in RowReads(dec, RecAt(buf, get_slot_offset(buf, slot)))} :
                slot \in DecodedSlots(buf)}

InPage(r) == r[1] >= 0 /\ r[2] <= PAGE_SIZE

\* --- buffers to decode ---
PageRecords ==
    {MakeRecord(s, f, 3, b, v, FALSE, <<>>) :
        s \in {0, HasNullBitmap + HasVarColumns}, f \in {<<1, 2>>, <<1, 2, 3, 4, 5, 6>>},
        b \in {0, MaxBitmap}, v \in {<<>>, <<<<65, 66>>>>}}
SlotCounts == {0, 1, 2, PAGE_SIZE \div 2, PAGE_SIZE \div 2 + MaxSlotsBefore}
\* where a record lies: at the start of the data area, right before the slot
\* array, or so that the page ends inside it
RecordOffsets(r) == {PAGE_HEADER_SIZE, PAGE_SIZE - 2 - Len(r), PAGE_SIZE - 2 - 7}
Buffers ==
    UNION {{BufferOf(type, n, r, offset, offset) :
               type \in {PT_DATA, PT_BOOT}, n \in SlotCounts, offset \in RecordOffsets(r)}
           \cup {BufferOf(PT_DATA, 1, r, PAGE_SIZE - 2 - Len(r), slot0) :
                    slot0 \in {0, PAGE_HEADER_SIZE - 1, PAGE_SIZE - 2}} :
           r \in PageRecords}

PageSchemas ==
    {<<ColumnDef("TinyInt", 1, 0), ColumnDef("SmallInt", 2, 0), ColumnDef("VarChar", 10, 0)>>,
     <<ColumnDef("DateTime2", 6, 0), ColumnDef("VarChar", 10, 0)>>}

InitPage ==
    /\ stripes = <<<<PgD1, PgD2, PgOther>>>>
    /\ hdr = HdrPlain
    /\ cfg = [num_threads |-> 1, force_rescan |-> FALSE, cache_pages |-> MaxCachePages]
    /\ sidecar = NoFile
    /\ FreshStore
    /\ requests = NoRequests
    /\ prev = NoPrev
    /\ NoApp
    /\ catalog = NewCatalogReader(<<>>)
    /\ \E schema \in PageSchemas, buf \in Buffers, w \in {0, PAGE_SIZE - 2 - 7},
          b \in {0, 255}, m \in BOOLEAN :
          decoding = [NoDecoder EXCEPT !.schema = schema, !.page = buf, !.before = w,
                                       !.beyond = b, !.mapped = m]
    /\ use_indexed_mode = TRUE
    /\ caller = "api"
    /\ FreshExtractor

\* decode_page called on the buffer; a read outside the buffer of memory
\* that is not mapped ends the process
DecodePage ==
    /\ ~decoding.done
    /\ LET dec == RowDecoder(decoding.schema)
           reads == PageReads(dec, decoding.page)
       IN IF (\E r \in reads : ~InPage(r)) /\ ~decoding.mapped
          THEN decoding' = [decoding EXCEPT !.done = TRUE, !.crashed = TRUE, !.reads = reads]
          ELSE decoding' = [decoding EXCEPT !.done = TRUE, !.reads = reads,
                                            !.rows = decode_page_bytes(dec, decoding.page)]
    /\ UNCHANGED <<scanVars, extVars, requests, prev, catalog, appVars>>

NextPage == DecodePage

SpecPage == InitPage /\ [][NextPage]_vars

\* C21 as stated: decode_page reads no byte outside the 8192-byte buffer it
\* was given, whatever the slot count, slot offsets and record bytes are.
C21_ReadsStayInPage ==
    decoding.done => \A r \in decoding.reads : InPage(r)

(* ------------------------------------------------------------------ *)
(* The column filter of phase_resolve_table                           *)
(* ------------------------------------------------------------------ *)
\* a ColumnDef with its name
NamedColumn(name, type, max_length) ==
    [name |-> name, type |-> type, max_length |-> max_length, leaf_offset |-> 0]

\* phase_resolve_table: for every requested name in request order, the
\* first column of that name; filtered replaces the columns unless it is empty
RECURSIVE FilterColumns(_, _)
FilterColumns(columns, target_columns) ==
    IF target_columns = <<>> THEN <<>>
    ELSE LET named == {i \in DOMAIN columns : columns[i].name = Head(target_columns)}
         IN (IF named = {} THEN <<>>
             ELSE <<columns[CHOOSE i \in named : \A j \in named : i <= j]>>)
            \o FilterColumns(columns, Tail(target_columns))
ApplyColumnFilter(columns, target_columns) ==
    IF target_columns = <<>> \/ FilterColumns(columns, target_columns) = <<>> THEN columns
    ELSE FilterColumns(columns, target_columns)
\* phase_resolve_table: the requested names it warns about, in request order
FilterWarnings(columns, target_columns) ==
    SelectSeq(target_columns, LAMBDA name : \A i \in DOMAIN columns : columns[i].name # name)

\* tables: fixed-length columns a, b and variable-length columns c, d
TableColumns ==
    {<<NamedColumn("a", "TinyInt", 1), NamedColumn("b", "SmallInt", 2),
       NamedColumn("c", "VarChar", 10), NamedColumn("d", "VarChar", 10)>>,
     <<NamedColumn("c", "VarChar", 10), NamedColumn("a", "TinyInt", 1),
       NamedColumn("b", "TinyInt", 1)>>}
ColumnNames == {"a", "b", "c", "zz"}
ColumnFilters == {<<>>} \cup SeqsUpTo(ColumnNames, MaxFilter)
TableRecords ==
    {MakeRecord(HasNullBitmap + HasVarColumns, <<1, 2, 3>>, 4, b, v, FALSE, <<9>>) :
        b \in {0, 1, 2, 4, MaxBitmap}, v \in {<<<<65>>, <<66, 67>>>>, <<<<>>, <<68>>>>}}

InitColumns ==
    /\ stripes = <<<<PgD1, PgD2, PgOther>>>>
    /\ hdr = HdrPlain
    /\ cfg = [num_threads |-> 1, force_rescan |-> FALSE, cache_pages |-> MaxCachePages]
    /\ sidecar = NoFile
    /\ FreshStore
    /\ requests = NoRequests
    /\ prev = NoPrev
    /\ NoApp
    /\ catalog = NewCatalogReader(<<>>)
    /\ \E columns \in TableColumns, rec \in TableRecords :
          decoding = [NoDecoder EXCEPT !.table = columns, !.rec = rec]
    /\ use_indexed_mode = TRUE
    /\ caller = "api"
    /\ FreshExtractor

DecodeFrame == UNCHANGED <<scanVars, extVars, requests, prev, catalog, appVars>>

\* DirectExtractor::set_columns
SetColumns(columns) ==
    /\ ~decoding.resolved
    /\ decoding' = [decoding EXCEPT !.target_columns = columns]
    /\ DecodeFrame

\* phase_resolve_table from resolve_table's return on: the column filter
ResolveColumns ==
    /\ ~decoding.resolved
    /\ decoding' = [decoding EXCEPT
                      !.schema = ApplyColumnFilter(decoding.table, decoding.target_columns),
                      !.warnings = FilterWarnings(decoding.table, decoding.target_columns),
                      !.resolved = TRUE]
    /\ DecodeFrame

\* phase_extract_rows: a RowDecoder for schema_ decodes the record
DecodeResolved ==
    /\ decoding.resolved
    /\ DecodeRow

NextColumns ==
    \/ \E columns \in ColumnFilters : SetColumns(columns)
    \/ ResolveColumns
    \/ DecodeResolved

SpecColumns == InitColumns /\ [][NextColumns]_vars

Requested(name) == \E i \in DOMAIN decoding.target_columns : decoding.target_columns[i] = name

\* C22 as stated: with a column filter set, the resolved column list is the
\* table's columns whose names were requested, in the table's order; the
\* requested names that are no column of the table are warned about, and
\* the resolution does not fail.
C22_FilterKeepsTableOrder ==
    (decoding.resolved /\ decoding.target_columns # <<>>) =>
        /\ decoding.schema = SelectSeq(decoding.table, LAMBDA c : Requested(c.name))
        /\ \A i \in DOMAIN decoding.target_columns :
              (\A j \in DOMAIN decoding.table :
                  decoding.table[j].name # decoding.target_columns[i])
              => \E w \in DOMAIN decoding.warnings :
                    decoding.warnings[w] = decoding.target_columns[i]

\* the row decode_row gives for the record with the whole table as schema
UnfilteredRow == decode_row(RowDecoder(decoding.table), decoding.rec).out_row
TableIndex(name) == CHOOSE j \in DOMAIN decoding.table : decoding.table[j].name = name

\* C27 as stated: with a column filter that names existing columns only, the
\* row delivered is the row delivered without the filter, projected onto
\* the requested columns: the same values and the same Nulls.
C27_FilteredRowIsProjection ==
    (/\ decoding.resolved /\ decoding.done /\ decoding.ok
     /\ decoding.target_columns # <<>>
     /\ \A i \in DOMAIN decoding.target_columns :
           \E j \in DOMAIN decoding.table :
              decoding.table[j].name = decoding.target_columns[i])
    => \A i \in DOMAIN decoding.schema :
          decoding.out_row[i] = UnfilteredRow[TableIndex(decoding.schema[i].name)]

\* ---------------------------------------------------------------------
\* Pipeline::run: the execution modes and the fallback to a live restore
\* ---------------------------------------------------------------------

\* the backup and the extractor at rest while a Pipeline, an API handle or
\* a RowQueue is at work
IdleBackup ==
    /\ stripes = <<<<PgD1, PgD2, PgOther>>>>
    /\ hdr = HdrPlain
    /\ cfg = [num_threads |-> 1, force_rescan |-> FALSE, cache_pages |-> MaxCachePages]
    /\ sidecar = NoFile
    /\ FreshStore
    /\ requests = NoRequests
    /\ prev = NoPrev
    /\ catalog = NewCatalogReader(<<>>)
    /\ decoding = NoDecoder
    /\ use_indexed_mode = TRUE
    /\ caller = "api"
    /\ FreshExtractor

AppFrame == UNCHANGED <<scanVars, extVars, requests, prev, catalog, decoding>>

ExecModes == {"Direct", "Restore", "Auto"}
TargetServers == {"", "srv"}

PipelineResult(success, mode_used, rows_exported, error_message) ==
    [success |-> success, mode_used |-> mode_used,
     rows_exported |-> rows_exported, error_message |-> error_message]

\* what DirectExtractor::extract and RestoreAdapter::extract can hand back
\* for a run limited to max_rows rows: rows read and success, or a failure
\* with its message
RowLimit(limit) == IF limit >= 0 THEN limit ELSE MaxMaxRows
ExtractOutcomes(limit, errors) ==
    {[success |-> TRUE, rows_read |-> n, error_message |-> <<>>] : n \in 0..RowLimit(limit)}
    \cup {[success |-> FALSE, rows_read |-> 0, error_message |-> <<e>>] : e \in errors}
DirectErrors == {"TDE", "encryption", "table not found", "exception"}
RestoreErrors == {"restore failed", "exception"}

try_direct_mode(opts, extract_result) ==
    PipelineResult(extract_result.success, "direct",
                   extract_result.rows_read, extract_result.error_message)

try_restore_mode(opts, restore_result) ==
    IF opts.target_server = ""
    THEN PipelineResult(FALSE, "restore", 0, <<"Restore mode requires --target-server">>)
    ELSE PipelineResult(restore_result.success, "restore",
                        restore_result.rows_read, restore_result.error_message)

\* the restore path of the Auto case is taken for a failed direct result
\* and a target server
FallsBackNever(opts, direct_result) == FALSE

FallsBack(opts, direct_result) == ~direct_result.success /\ opts.target_server # ""

\* run(): paths lists the paths called, in the order of the calls
PipelineRun(opts, extract_result, restore_result) ==
    LET direct == try_direct_mode(opts, extract_result)
        restore == try_restore_mode(opts, restore_result)
    IN  CASE opts.mode = "Direct" -> [paths |-> <<"direct">>, result |-> direct]
          [] opts.mode = "Restore" -> [paths |-> <<"restore">>, result |-> restore]
          [] OTHER ->
                IF direct.success THEN [paths |-> <<"direct">>, result |-> direct]
                ELSE IF FallsBack(opts, direct)
                THEN [paths |-> <<"direct", "restore">>, result |-> restore]
                ELSE [paths |-> <<"direct">>,
                      result |-> [direct EXCEPT !.error_message =
                                     <<"Direct mode failed and no --target-server specified for restore fallback. ">>
                                     \o direct.error_message]]

InitPipeline ==
    /\ IdleBackup
    /\ handle = NoHandle
    /\ queue = NoQueue
    /\ \E mode \in ExecModes, target_server \in TargetServers, limit \in -1..MaxMaxRows :
          pipe = [mode |-> mode, target_server |-> target_server, max_rows |-> limit,
                  ran |-> FALSE, paths |-> <<>>, direct |-> PipelineResult(FALSE, "", 0, <<>>),
                  result |-> PipelineResult(FALSE, "", 0, <<>>)]

Run ==
    /\ pipe.mode \in ExecModes
    /\ ~pipe.ran
    /\ \E extract_result \in ExtractOutcomes(pipe.max_rows, DirectErrors),
          restore_result \in ExtractOutcomes(pipe.max_rows, RestoreErrors) :
          LET r == PipelineRun(pipe, extract_result, restore_result)
          IN  pipe' = [pipe EXCEPT !.ran = TRUE, !.paths = r.paths, !.result = r.result,
                                   !.direct = try_direct_mode(pipe, extract_result)]
    /\ UNCHANGED <<handle, queue>>
    /\ AppFrame

NextPipeline == Run

SpecPipeline == InitPipeline /\ [][NextPipeline]_vars

RestoreRan == \E i \in DOMAIN pipe.paths : pipe.paths[i] = "restore"

\* C24 as stated: in auto mode the direct path runs first and the
\* live-restore path runs exactly when the direct path reported failure,
\* whatever the failure reports; in direct mode the live-restore path
\* never runs.
C24_RestoreExactlyOnDirectFailure ==
    pipe.ran =>
        /\ pipe.mode = "Auto" =>
              /\ pipe.paths[1] = "direct"
              /\ RestoreRan <=> ~pipe.direct.success
        /\ pipe.mode = "Direct" => ~RestoreRan

\* C24, amended: in auto mode the direct path runs first and the
\* live-restore path runs exactly when the direct path reported failure and
\* a target server is configured; without a target server a failed direct
\* path is the result of the run, its message saying that no target server
\* was given; in direct mode the live-restore path never runs.
C24_RestoreOnFailureWithTarget ==
    pipe.ran =>
        /\ pipe.mode = "Auto" =>
              /\ pipe.paths[1] = "direct"
              /\ RestoreRan <=> (~pipe.direct.success /\ pipe.target_server # "")
              /\ (~pipe.direct.success /\ pipe.target_server = "") =>
                    /\ ~pipe.result.success
                    /\ pipe.result.error_message =
                          <<"Direct mode failed and no --target-server specified for restore fallback. ">>
                          \o pipe.direct.error_message
        /\ pipe.mode = "Direct" => ~RestoreRan

\* an auto run whose direct path reported encryption and whose restore
\* path then ran
C24_Witness ==
    /\ pipe.ran
    /\ pipe.mode = "Auto"
    /\ pipe.direct.error_message = <<"encryption">>
    /\ pipe.paths = <<"direct", "restore">>

\* ---------------------------------------------------------------------
\* The C API: a ReaderState, its setters and the streaming extraction
\* ---------------------------------------------------------------------
MaxNextRows == 2
DEFAULT_CACHE_MB == 256

DirectExtractorConfig(enabled, cache_mb) ==
    [use_indexed_mode |-> enabled, cache_size_mb |-> cache_mb]

\* a DirectExtractor after its constructor: the configuration it was given
\* and the defaults of its settings
NewExtractor(config) ==
    [config |-> config, target_table |-> "", target_columns |-> <<>>,
     max_rows |-> -1, progress_cb |-> FALSE]

ApiTableColumns == <<NamedColumn("a", "TinyInt", 1), NamedColumn("b", "SmallInt", 2)>>
ColumnNamesOf(columns) == [i \in DOMAIN columns |-> columns[i].name]

\* the rows the row callback is called with, in call order, when it answers
\* ret every time
RECURSIVE CallbackRows(_, _, _, _)
CallbackRows(st, ret, mr, pc) ==
    IF st.phase # "rows" THEN <<>>
    ELSE <<Head(st.rowq)>> \o
         CallbackRows(IF ret
                      THEN RowLoop(st.todo, Tail(st.rowq), st.total + 1, st.handed, mr, pc)
                      ELSE AfterRows(st.todo, st.total, st.handed, mr, pc),
                      ret, mr, pc)

\* DirectExtractor::extract of the extractor ext on the backup pages P with
\* a callback that answers ret: the rows handed out and the result
ExtractorRun(ext, P, order, ret) ==
    LET matches == ResolveMatches(CatalogObjects(P), "dbo", ext.target_table)
        resolved == read_boot_page(P) /\ matches # {}
        objid == IF resolved
                 THEN get_page_obj_id(CatalogPageObjIds(P), CHOOSE oid \in matches : TRUE)
                 ELSE 0
        pc == IF ext.config.use_indexed_mode THEN <<>> ELSE P
        cand == CandidatePages(pc, objid, {})
        todo0 == SelectSeq(order, LAMBDA k : k \in cand)
        called == IF resolved /\ objid # 0
                  THEN CallbackRows(PageLoop(todo0, 0, {}, ext.max_rows, pc), ret, ext.max_rows, pc)
                  ELSE <<>>
        names == ColumnNamesOf(ApplyColumnFilter(ApiTableColumns, ext.target_columns))
    IN  [success |-> resolved,
         rows_read |-> IF ret THEN Len(called) ELSE 0,
         rows |-> [i \in DOMAIN called |-> [id |-> called[i].id, columns |-> names]],
         progress |-> ext.progress_cb /\ resolved]

NoRow == [id |-> 0, columns |-> <<>>]
NoLast == [ran |-> FALSE, code |-> "", rows |-> <<>>, progress |-> FALSE]

\* backups with the catalog of table t1 and some of its data pages
ApiBackups ==
    {PagesOf({PgBoot, PgSysObj, PgRowsets, PgAlloc} \cup d) :
        d \in {{PgD1, PgD2}, {PgD1}, {PgEmpty}}}
ApiTables == {"T1"}
ApiFilters == {<<"b">>}
ApiMaxRows == {1}
ApiCacheSizes == {0, 64}

\* a setter was called: the histories start again
Touched(h) == [h EXCEPT !.last = NoLast, !.steady = FALSE, !.returned = <<>>]

InitApi ==
    /\ IdleBackup
    /\ pipe = NoPipeline
    /\ queue = NoQueue
    /\ \E P \in ApiBackups :
       \E order \in Orders({k \in DOMAIN P : P[k].type = PT_DATA /\ k[2] >= 100}) :
          handle = [open |-> TRUE, pages |-> P, order |-> order,
                    config |-> DirectExtractorConfig(FALSE, DEFAULT_CACHE_MB),
                    extractor |-> NewExtractor(DirectExtractorConfig(FALSE, DEFAULT_CACHE_MB)),
                    target_table |-> "", columns |-> <<>>, max_rows |-> -1,
                    progress_cb |-> FALSE,
                    extracting |-> FALSE, extract_done |-> FALSE, rows_extracted |-> 0,
                    current_row |-> NoRow,
                    returned |-> <<>>, calls |-> 0, steady |-> FALSE, last |-> NoLast]

ApiFrame == UNCHANGED <<pipe, queue>> /\ AppFrame

bakread_set_table(table) ==
    /\ handle.open
    /\ handle' = [Touched(handle) EXCEPT !.target_table = table,
                                         !.extractor.target_table = table]
    /\ ApiFrame

bakread_set_columns(columns) ==
    /\ handle.open
    /\ handle' = [Touched(handle) EXCEPT !.columns = columns,
                                         !.extractor.target_columns = columns]
    /\ ApiFrame

bakread_set_max_rows(n) ==
    /\ handle.open
    /\ handle' = [Touched(handle) EXCEPT !.max_rows = n, !.extractor.max_rows = n]
    /\ ApiFrame

\* the extractor is replaced by a newly constructed one
bakread_set_indexed_mode(enabled, cache_mb) ==
    /\ handle.open
    /\ LET config == DirectExtractorConfig(enabled,
                        IF cache_mb > 0 THEN cache_mb ELSE DEFAULT_CACHE_MB)
       IN handle' = [Touched(handle) EXCEPT !.config = config,
                                            !.extractor = NewExtractor(config)]
    /\ ApiFrame

bakread_set_progress_callback(cb) ==
    /\ handle.open
    /\ handle' = [Touched(handle) EXCEPT !.progress_cb = cb, !.extractor.progress_cb = cb]
    /\ ApiFrame

\* bakread_extract with a caller's callback that answers ret every time
bakread_extract(ret) ==
    /\ handle.open
    /\ ~handle.last.ran
    /\ LET r == ExtractorRun(handle.extractor, handle.pages, handle.order, ret)
       IN handle' = [handle EXCEPT !.last =
                        [ran |-> TRUE,
                         code |-> IF r.success THEN "BAKREAD_OK" ELSE "BAKREAD_ERROR_INTERNAL",
                         rows |-> r.rows, progress |-> r.progress]]
    /\ ApiFrame

bakread_begin_extract ==
    /\ handle.open
    /\ handle' = [handle EXCEPT !.extracting = TRUE, !.extract_done = FALSE,
                                !.rows_extracted = 0, !.returned = <<>>, !.calls = 0,
                                !.steady = TRUE]
    /\ ApiFrame

Returned(code, row) == [code |-> code, row |-> row]

\* every call that gets past the two tests runs extract() from the start,
\* with a callback that keeps the row and answers stop
bakread_next_row ==
    /\ handle.open
    /\ handle.calls < MaxNextRows
    /\ LET r == ExtractorRun(handle.extractor, handle.pages, handle.order, FALSE)
           h == [handle EXCEPT !.calls = @ + 1]
       IN handle' =
            IF ~handle.extracting
            THEN [h EXCEPT !.returned = Append(@, Returned("BAKREAD_ERROR_INTERNAL", NoRow))]
            ELSE IF handle.extract_done
            THEN [h EXCEPT !.returned = Append(@, Returned("BAKREAD_ERROR_NO_MORE_ROWS", NoRow))]
            ELSE IF r.rows # <<>>
            THEN [h EXCEPT !.current_row = r.rows[Len(r.rows)],
                                !.rows_extracted = @ + Len(r.rows),
                                !.returned = Append(@, Returned("BAKREAD_OK", r.rows[Len(r.rows)]))]
            ELSE [h EXCEPT !.extract_done = TRUE,
                                !.returned = Append(@, Returned("BAKREAD_ERROR_NO_MORE_ROWS", NoRow))]
    /\ ApiFrame

bakread_end_extract ==
    /\ handle.open
    /\ handle.extracting
    /\ handle' = [handle EXCEPT !.extracting = FALSE, !.extract_done = TRUE]
    /\ ApiFrame

NextApi ==
    \/ \E table \in ApiTables : bakread_set_table(table)
    \/ \E columns \in ApiFilters : bakread_set_columns(columns)
    \/ \E n \in ApiMaxRows : bakread_set_max_rows(n)
    \/ \E enabled \in BOOLEAN, cache_mb \in ApiCacheSizes : bakread_set_indexed_mode(enabled, cache_mb)
    \/ \E cb \in {TRUE} : bakread_set_progress_callback(cb)
    \/ \E ret \in BOOLEAN : bakread_extract(ret)
    \/ bakread_begin_extract
    \/ bakread_next_row
    \/ bakread_end_extract

SpecApi == InitApi /\ [][NextApi]_vars

\* the rows of the table the extractor of the handle is set to
ApiTableRows ==
    LET P == handle.pages
        matches == ResolveMatches(CatalogObjects(P), "dbo", handle.extractor.target_table)
        objid == IF matches = {} THEN 0
                 ELSE get_page_obj_id(CatalogPageObjIds(P), CHOOSE oid \in matches : TRUE)
    IN  {r.id : r \in UNION {{P[k].recs[i] : i \in DOMAIN P[k].recs} :
                                k \in {q \in DOMAIN P : P[q].type = PT_DATA /\ P[q].obj_id = objid}}}
        \ {0}
OkCalls == {i \in DOMAIN handle.returned : handle.returned[i].code = "BAKREAD_OK"}

\* C25 as stated: after bakread_begin_extract, with the settings left alone
\* and all rows asked for, the bakread_next_row calls return BAKREAD_OK once
\* for each row of the target table, no row twice, and from then on
\* BAKREAD_ERROR_NO_MORE_ROWS; there are no more BAKREAD_OK results than
\* the table has rows.
C25_NextRowStreamsEachRowOnce ==
    (handle.open /\ handle.steady /\ handle.extracting /\ handle.extractor.max_rows = -1) =>
        /\ \A i, j \in OkCalls : i # j => handle.returned[i].row.id # handle.returned[j].row.id
        /\ \A i \in DOMAIN handle.returned :
              handle.returned[i].code = "BAKREAD_ERROR_NO_MORE_ROWS" =>
                 /\ {handle.returned[j].row.id : j \in {n \in OkCalls : n < i}} = ApiTableRows
                 /\ \A j \in DOMAIN handle.returned :
                       j > i => handle.returned[j].code = "BAKREAD_ERROR_NO_MORE_ROWS"
        /\ Cardinality(OkCalls) <= Cardinality(ApiTableRows)

\* what an extractor with the settings held by the handle delivers
HandleSettings ==
    [config |-> handle.config, target_table |-> handle.target_table,
     target_columns |-> handle.columns, max_rows |-> handle.max_rows,
     progress_cb |-> handle.progress_cb]

\* C30 as stated: whatever the order of the setter calls, the next
\* extraction runs with the target table, column filter, max_rows and
\* progress callback last set on the handle: bakread_set_indexed_mode
\* changes the indexed-mode and cache-size configuration only.
C30_SetIndexedModeKeepsSettings ==
    (handle.open /\ handle.last.ran) =>
        \E ret \in BOOLEAN :
           LET r == ExtractorRun(HandleSettings, handle.pages, handle.order, ret)
           IN /\ handle.last.rows = r.rows
              /\ handle.last.progress = r.progress
              /\ handle.last.code = IF r.success THEN "BAKREAD_OK" ELSE "BAKREAD_ERROR_INTERNAL"

\* ---------------------------------------------------------------------
\* RowQueue: push, pop and finish called from several threads
\* ---------------------------------------------------------------------
MaxPushes == 3
MaxCapacity == 2

Producers == {"p1", "p2"}
Consumers == {"c1", "c2"}
Finishers == {"main"}
QueueThreads == Producers \cup Consumers \cup Finishers

\* the predicates of the two waits; a thread waits, the mutex released,
\* until it holds the mutex with its predicate true
PopReadyAlways(q) == TRUE

PushReady(q) == Len(q.queue_) < q.capacity_ \/ q.finished_
PopReady(q) == q.queue_ # <<>> \/ q.finished_

InitQueue ==
    /\ IdleBackup
    /\ pipe = NoPipeline
    /\ handle = NoHandle
    /\ \E capacity \in 1..MaxCapacity :
          queue = [capacity |-> capacity, capacity_ |-> capacity, queue_ |-> <<>>,
                   finished_ |-> FALSE,
                   pc |-> [t \in QueueThreads |-> "idle"],
                   row |-> [t \in QueueThreads |-> 0],
                   next |-> 1,
                   pushed |-> <<>>, popped |-> <<>>,
                   refused |-> {}, accepted_finished |-> FALSE,
                   empty_pops |-> {}]

QueueFrame == UNCHANGED <<pipe, handle>> /\ AppFrame

\* a thread calls push with a new row, pop or finish and comes to the mutex
CallPush(t) ==
    /\ queue.capacity > 0
    /\ queue.pc[t] = "idle"
    /\ queue.next <= MaxPushes
    /\ queue' = [queue EXCEPT !.pc[t] = "push", !.row[t] = queue.next, !.next = @ + 1]
    /\ QueueFrame

CallPop(t) ==
    /\ queue.capacity > 0
    /\ queue.pc[t] = "idle"
    /\ queue' = [queue EXCEPT !.pc[t] = "pop"]
    /\ QueueFrame

CallFinish(t) ==
    /\ queue.capacity > 0
    /\ queue.pc[t] = "idle"
    /\ ~queue.finished_
    /\ queue' = [queue EXCEPT !.pc[t] = "finish"]
    /\ QueueFrame

\* RowQueue::push from the end of its wait to its return
push(t) ==
    /\ queue.capacity > 0
    /\ queue.pc[t] = "push"
    /\ PushReady(queue)
    /\ queue' =
          IF queue.finished_
          THEN [queue EXCEPT !.pc[t] = "idle",
                             !.refused = @ \cup {[row |-> queue.row[t], finished |-> queue.finished_]}]
          ELSE [queue EXCEPT !.pc[t] = "idle",
                             !.queue_ = Append(@, queue.row[t]),
                             !.pushed = Append(@, queue.row[t]),
                             !.accepted_finished = @ \/ queue.finished_]
    /\ QueueFrame

\* RowQueue::pop from the end of its wait to its return
pop(t) ==
    /\ queue.capacity > 0
    /\ queue.pc[t] = "pop"
    /\ PopReady(queue)
    /\ queue' =
          IF queue.queue_ = <<>>
          THEN [queue EXCEPT !.pc[t] = "idle",
                             !.empty_pops = @ \cup {[finished |-> queue.finished_,
                                                     size |-> Len(queue.queue_),
                                                     pushed |-> queue.pushed,
                                                     popped |-> queue.popped]}]
          ELSE [queue EXCEPT !.pc[t] = "idle",
                             !.row[t] = Head(queue.queue_),
                             !.queue_ = Tail(@),
                             !.popped = Append(@, Head(queue.queue_))]
    /\ QueueFrame

\* RowQueue::finish
finish(t) ==
    /\ queue.capacity > 0
    /\ queue.pc[t] = "finish"
    /\ queue' = [queue EXCEPT !.pc[t] = "idle", !.finished_ = TRUE]
    /\ QueueFrame

NextQueue ==
    \/ \E t \in Producers : CallPush(t)
    \/ \E t \in Consumers : CallPop(t)
    \/ \E t \in Finishers \cup Producers : CallFinish(t)
    \/ \E t \in Producers : push(t)
    \/ \E t \in Consumers : pop(t)
    \/ \E t \in Finishers \cup Producers : finish(t)

SpecQueue == InitQueue /\ [][NextQueue]_vars

IsPrefix(s, t) == Len(s) <= Len(t) /\ \A i \in DOMAIN s : s[i] = t[i]

\* C26: with producers and consumers running concurrently, a pop returns
\* false only when finish has run and the queue is empty; the rows returned
\* by pops are the rows whose push returned true, in push order and each
\* once, all of them returned before any pop returns false; and a push
\* that comes to the queue after finish has run returns false, none
\* returning true then.
C26_QueueDeliversInOrder ==
    queue.capacity > 0 =>
        /\ \A e \in queue.empty_pops :
              e.finished /\ e.size = 0 /\ e.popped = e.pushed
        /\ IsPrefix(queue.popped, queue.pushed)
        /\ queue.popped \o queue.queue_ = queue.pushed
        /\ \A i, j \in DOMAIN queue.popped : i # j => queue.popped[i] # queue.popped[j]
        /\ queue.empty_pops # {} => queue.popped = queue.pushed
        /\ ~queue.accepted_finished
        /\ \A r \in queue.refused : r.finished
        /\ Len(queue.queue_) <= queue.capacity_

\* two rows went through the queue, a pop then returned false and a push
\* was refused
C26_Witness ==
    /\ queue.capacity > 0
    /\ Len(queue.popped) >= 2
    /\ queue.empty_pops # {}
    /\ queue.refused # {}

\* ---------------------------------------------------------------------
\* Indexed mode against non-indexed mode
\* ---------------------------------------------------------------------

\* the page_cache_ phase_load_pages fills in non-indexed mode
LegacyLoad == LoadStripes([cache |-> <<>>, found |-> 0], stripes)

\* the non-indexed extraction of the same stripes and table gets as far as
\* phase_extract_rows
LegacyReachesRows ==
    /\ ~ParseThrows(hdr) /\ ParseReturns(hdr)
    /\ ~is_tde_enabled(ParseSets(hdr)) /\ ~is_backup_encrypted(ParseSets(hdr))
    /\ LegacyLoad.found > 0
    /\ read_boot_page(LegacyLoad.cache)
LegacyMatches == ResolveMatches(CatalogObjects(LegacyLoad.cache), target.schema, target.table)

\* the ids of the rows it then hands out for the resolved object oid
LegacyRowIds(oid) ==
    LET pc == LegacyLoad.cache
        objid == get_page_obj_id(CatalogPageObjIds(pc), oid)
    IN  IF objid = 0 THEN {}
        ELSE UNION {{r.id : r \in {decode_page(pc[k])[i] : i \in DOMAIN decode_page(pc[k])}} :
                       k \in CandidatePages(pc, objid, allocation_hints)}

\* C28 as stated: with max_rows = -1 and a callback that never stops, an
\* extraction in indexed mode hands out the rows the non-indexed
\* extraction of the same stripes, table and hints hands out (the rows of
\* the model differ in their ids, so the multisets are compared as sets
\* with the number of rows).
C28_IndexedModeSameRows ==
    (phase = "done" /\ use_indexed_mode /\ ~prev.ran /\ max_rows = -1 /\ stop_at = 0) =>
        IF LegacyReachesRows /\ LegacyMatches # {}
        THEN \E oid \in LegacyMatches :
                /\ {emitted[i] : i \in DOMAIN emitted} = LegacyRowIds(oid)
                /\ Len(emitted) = Cardinality(LegacyRowIds(oid))
        ELSE emitted = <<>>

====
